---- MODULE Spec2Model ----
(***************************************************************************)
(* Financial Resilience Index (FRI): the transaction classifier and the    *)
(* scoring pipeline of FRI_new/fri_calculator_split_v1.py with the tables  *)
(* of FRI_new/fri_category_map.py.                                         *)
(*                                                                         *)
(* Conventions of the model                                                *)
(*   - money is a whole number of euros; scores are kept in hundredths of  *)
(*     a point (10000 = 100.00), ratios in ten-thousandths (10000 = 1.0);  *)
(*     a float division becomes a floor division at that resolution;       *)
(*   - a datetime is a day number, day 0 = 1 January 2025;                 *)
(*   - Greek labels of the category map are written in Latin letters;      *)
(*   - NaN / None is the value NaN for amounts and MccNull for mcc codes.  *)
(***************************************************************************)
EXTENDS Integers, Sequences, FiniteSets, TLC

VARIABLES
    ledger,      \* the transactions DataFrame the caller holds (Seq of rows)
    now,         \* the wall clock, datetime.now()
    classified,  \* the DataFrame classify returned last (Seq of rows)
    ruled,       \* the same DataFrame before the MCC pass (line 162)
    customer,    \* the customer's balances and age, as the caller passes them
    call,        \* the arguments of the last calculate call, or None
    called_at,   \* the clock time of the last calculate call, or None
    result,      \* the FRIResult calculate returned last (or the error it
                 \* raised), or None
    previous,    \* the calculate call before the last: its arguments, its
                 \* clock time and the FRIResult it returned, or None
    tables,      \* the module-level dicts WEIGHT_CONFIGS and
                 \* DATA_MODE_WEIGHTS as they are now
    history      \* the last calculate_monthly_history call: its arguments,
                 \* its clock time and the list it returned (or the error
                 \* it raised), or None

vars ==
    <<ledger, now, classified, ruled, customer, call, called_at, result, previous,
      tables, history>>

\* ------------------------------------------------------------------------
\* Role sets (fri_category_map.py)
\* ------------------------------------------------------------------------

Roles ==
    {"STABILITY_INCOME", "STABILITY_BENEFIT", "BUFFER_ESSENTIAL",
     "BUFFER_DISCRETIONARY", "BUFFER_SPENDING_UNCLASSIFIED", "FEE_BANK",
     "TAX_LEVY", "MOMENTUM_DEBT_NEW", "MOMENTUM_DEBT_REPAY",
     "MOMENTUM_DEBT_COST", "INTERNAL_TRANSFER", "SYSTEM_OPERATION",
     "REWARD_CASHBACK"}

\* the income roles with the reward role counted among them
INCOME_ROLES_WithRewards ==
    {"STABILITY_INCOME", "STABILITY_BENEFIT", "REWARD_CASHBACK"}

INCOME_ROLES == {"STABILITY_INCOME", "STABILITY_BENEFIT"}

ESSENTIAL_SPENDING_ROLES ==
    {"BUFFER_ESSENTIAL", "FEE_BANK", "TAX_LEVY", "MOMENTUM_DEBT_REPAY"}

UNCLASSIFIED_SPENDING_ROLES == {"BUFFER_SPENDING_UNCLASSIFIED"}

DEBT_INCREASE_ROLES == {"MOMENTUM_DEBT_NEW"}

DEBT_DECREASE_ROLES == {"MOMENTUM_DEBT_REPAY"}

DEBT_COST_ROLES == {"MOMENTUM_DEBT_COST"}

\* ------------------------------------------------------------------------
\* Category map and fallback tables (fri_category_map.py)
\* ------------------------------------------------------------------------

Mapping(role, ess, enr) ==
    [fri_role |-> role, essential |-> ess, needs_enrichment |-> enr]

\* A slice of the 101 entries of the primary map: every role and every
\* (role, essential, needs_enrichment) shape the calculator distinguishes,
\* and the entries whose type also has a type fallback with another role.
FRI_CATEGORY_MAP ==
    <<"Receive Credit Transfer", "SAVINGS DEPOSIT">>
        :> Mapping("STABILITY_INCOME", TRUE, TRUE)
 @@ <<"Receive Credit Transfer Instant", "PROMITHEIA APO KINISI KEFALAION (INSTANT)">>
        :> Mapping("FEE_BANK", TRUE, FALSE)
 @@ <<"Deposit Transaction", "EFODIASMOS LOGARIASMON YOUTH PASS">>
        :> Mapping("STABILITY_BENEFIT", TRUE, FALSE)
 @@ <<"Deposit Transaction", "VODAFONE CU Cash Back">>
        :> Mapping("REWARD_CASHBACK", FALSE, FALSE)
 @@ <<"Deposit Transaction", "SAVINGS DEPOSIT">>
        :> Mapping("INTERNAL_TRANSFER", FALSE, TRUE)
 @@ <<"Create Bnpl Account", "KATATHESEIS TAMIEUTIRIOU">>
        :> Mapping("MOMENTUM_DEBT_NEW", FALSE, FALSE)
 @@ <<"Full Refund On Bnpl Account", "KATATHESEIS TAMIEUTIRIOU">>
        :> Mapping("MOMENTUM_DEBT_REPAY", FALSE, FALSE)
 @@ <<"Interest Transaction", "Credit Interest">>
        :> Mapping("REWARD_CASHBACK", FALSE, FALSE)
 @@ <<"Withdrawal Transaction", "ANALIPSI TAMIEUTIRIOU GIA POS">>
        :> Mapping("BUFFER_SPENDING_UNCLASSIFIED", TRUE, TRUE)
 @@ <<"Withdrawal Transaction", "ANALIPSI APO ATM">>
        :> Mapping("BUFFER_SPENDING_UNCLASSIFIED", TRUE, TRUE)
 @@ <<"Reconciliation Of Paymentology File", "PAYMENTOLOGY RECON (DEBIT)">>
        :> Mapping("SYSTEM_OPERATION", FALSE, FALSE)
 @@ <<"Pay Demand", "Sympsifistiki Analipsi">>
        :> Mapping("SYSTEM_OPERATION", FALSE, TRUE)
 @@ <<"Bnpl Account Payment", "ANALIPSI TAMIEUTIRIOU">>
        :> Mapping("MOMENTUM_DEBT_REPAY", TRUE, FALSE)
 @@ <<"Direct Debit Payment", "PAGIES ENTOLES DIAS CREDIT DDD">>
        :> Mapping("BUFFER_ESSENTIAL", TRUE, FALSE)
 @@ <<"Change Payment Date On Bnpl Account", "COMMISSION RECEIVING SNOOZE">>
        :> Mapping("MOMENTUM_DEBT_COST", TRUE, FALSE)
 @@ <<"Interest Transaction", "Interest Tax">>
        :> Mapping("TAX_LEVY", TRUE, FALSE)
 @@ <<"Savings Account Transfer", "ANALIPSI TAMIEUTIRIOU">>
        :> Mapping("INTERNAL_TRANSFER", FALSE, FALSE)
 @@ <<"Withdrawal Transaction", "COMMISSION RECEIVING ATM">>
        :> Mapping("FEE_BANK", TRUE, FALSE)
 @@ <<"Withdrawal Transaction", "MANUAL EXERCHOMENO EMVASMA TIPS">>
        :> Mapping("BUFFER_DISCRETIONARY", FALSE, FALSE)

TRANSACTION_TYPE_FALLBACK ==
    "Receive Credit Transfer" :> Mapping("STABILITY_INCOME", TRUE, TRUE)
 @@ "Receive Credit Transfer Instant" :> Mapping("STABILITY_INCOME", TRUE, TRUE)
 @@ "Receive Credit Transfer Iris" :> Mapping("STABILITY_INCOME", TRUE, TRUE)
 @@ "Withdrawal Transaction" :> Mapping("BUFFER_SPENDING_UNCLASSIFIED", TRUE, TRUE)
 @@ "Deposit Transaction" :> Mapping("REWARD_CASHBACK", FALSE, TRUE)
 @@ "Pay Debt" :> Mapping("REWARD_CASHBACK", FALSE, FALSE)
 @@ "Cancellation- Second Step" :> Mapping("SYSTEM_OPERATION", FALSE, FALSE)
 @@ "Full Reversal" :> Mapping("SYSTEM_OPERATION", FALSE, FALSE)

TRANSACTION_DESC_FALLBACK ==
    "Commission" :> Mapping("FEE_BANK", TRUE, FALSE)
 @@ "Tax" :> Mapping("TAX_LEVY", TRUE, FALSE)
 @@ "Levy" :> Mapping("TAX_LEVY", TRUE, FALSE)
 @@ "Credit Interests" :> Mapping("REWARD_CASHBACK", FALSE, FALSE)
 @@ "Debit Interests" :> Mapping("MOMENTUM_DEBT_COST", TRUE, FALSE)
 @@ "Full Reversal" :> Mapping("SYSTEM_OPERATION", FALSE, FALSE)
 @@ "Cancellation" :> Mapping("SYSTEM_OPERATION", FALSE, FALSE)
 @@ "Savings Account Deposit" :> Mapping("INTERNAL_TRANSFER", FALSE, FALSE)
 @@ "Savings Account Withrawal" :> Mapping("INTERNAL_TRANSFER", FALSE, FALSE)
 @@ "Expenses" :> Mapping("FEE_BANK", TRUE, FALSE)
 @@ "Credit Account" :> Mapping("SYSTEM_OPERATION", FALSE, FALSE)

\* a default with a role outside the enumeration
DefaultMapping_Unknown == Mapping("UNKNOWN", FALSE, TRUE)

\* line 182: the mapping of a transaction no table knows
DefaultMapping == Mapping("SYSTEM_OPERATION", FALSE, TRUE)

ESSENTIAL_MCC_CODES ==
    {"5411", "5422", "5441", "5451", "5462",
     "4900", "4814", "4812", "4813",
     "4111", "4112", "4121", "4131", "5541", "5542",
     "5912", "8011", "8021", "8031", "8041", "8042", "8043",
     "8049", "8050", "8062", "8071", "8099",
     "6300",
     "8211", "8220", "8241", "8244", "8249", "8299",
     "1520", "1711", "1731", "1740", "1750", "1761", "1771"}

DISCRETIONARY_MCC_CODES ==
    {"5812", "5813", "5814",
     "7832", "7922", "7929", "7933", "7941",
     "7991", "7992", "7993", "7994", "7995", "7996",
     "5611", "5621", "5631", "5641", "5651", "5661", "5691", "5699",
     "5732", "5733", "5734", "5735",
     "5944", "5945", "5947",
     "4511", "4722", "7011", "7012",
     "7230", "7297", "7298",
     "5815", "5816", "5817", "5818"}

\* ------------------------------------------------------------------------
\* Values of a row
\* ------------------------------------------------------------------------

\* a missing amount (NaN); amounts of the bank are never this number
NaN == -999999

\* the description column is absent or empty
NoDesc == ""

\* An mcc_code cell: NaN, a string (maybe padded with blanks), an integer,
\* or a float (what pandas makes of an integer column that has NaN in it).
MccNull == [kind |-> "nan", code |-> "", padded |-> FALSE]

MccStr(code) == [kind |-> "str", code |-> code, padded |-> FALSE]

MccPadded(code) == [kind |-> "str", code |-> code, padded |-> TRUE]

MccInt(code) == [kind |-> "int", code |-> code, padded |-> FALSE]

MccFloat(code) == [kind |-> "float", code |-> code, padded |-> FALSE]

\* str(cell), as a sequence of pieces: blanks, the digits, a ".0" suffix
PyStr(cell) ==
    CASE cell.kind = "nan" -> <<"nan">>
      [] cell.kind = "float" -> <<cell.code, ".0">>
      [] cell.kind = "int" -> <<cell.code>>
      [] OTHER -> IF cell.padded THEN <<" ", cell.code, " ">> ELSE <<cell.code>>

RECURSIVE LStrip(_)
LStrip(s) == IF s # <<>> /\ Head(s) = " " THEN LStrip(Tail(s)) ELSE s

RECURSIVE RStrip(_)
RStrip(s) ==
    IF s # <<>> /\ s[Len(s)] = " " THEN RStrip(SubSeq(s, 1, Len(s) - 1)) ELSE s

\* str.strip()
Strip(s) == RStrip(LStrip(s))

\* `mcc in CODES` for the stripped string
InCodes(s, codes) == Len(s) = 1 /\ s[1] \in codes

\* ------------------------------------------------------------------------
\* TransactionClassifier (fri_calculator_split_v1.py, lines 133-196)
\* ------------------------------------------------------------------------

\* fillna(0)
FillNa(x) == IF x = NaN THEN 0 ELSE x

Abs(x) == IF x < 0 THEN -x ELSE x

Min(a, b) == IF a < b THEN a ELSE b

Max(a, b) == IF a > b THEN a ELSE b

\* the fallback with the two tables consulted in the other order
FallbackClassify_DescFirst(row) ==
    IF row.TransactionDescription \in DOMAIN TRANSACTION_DESC_FALLBACK
    THEN TRANSACTION_DESC_FALLBACK[row.TransactionDescription]
    ELSE IF row.TransactionType \in DOMAIN TRANSACTION_TYPE_FALLBACK
    THEN TRANSACTION_TYPE_FALLBACK[row.TransactionType]
    ELSE DefaultMapping

\* _fallback_classify
FallbackClassify(row) ==
    IF row.TransactionType \in DOMAIN TRANSACTION_TYPE_FALLBACK
    THEN TRANSACTION_TYPE_FALLBACK[row.TransactionType]
    ELSE IF row.TransactionDescription \in DOMAIN TRANSACTION_DESC_FALLBACK
    THEN TRANSACTION_DESC_FALLBACK[row.TransactionDescription]
    ELSE DefaultMapping

\* FRI_CATEGORY_MAP.get(key) or self._fallback_classify(row)
LookupMapping(row) ==
    LET key == <<row.TransactionType, row.TransactionSubSubType>>
    IN  IF key \in DOMAIN FRI_CATEGORY_MAP
        THEN FRI_CATEGORY_MAP[key]
        ELSE FallbackClassify(row)

\* One row of the DataFrame after the rule pass: the input columns kept,
\* the fri_ columns written anew (whatever the row held in them before).
RuleRow(row) ==
    LET mapping == LookupMapping(row)
        net == FillNa(row.CreditAmountLC) - FillNa(row.DebitAmountLC)
    IN  [transaction_date |-> row.transaction_date,
         TransactionType |-> row.TransactionType,
         TransactionSubSubType |-> row.TransactionSubSubType,
         TransactionDescription |-> row.TransactionDescription,
         CreditAmountLC |-> row.CreditAmountLC,
         DebitAmountLC |-> row.DebitAmountLC,
         mcc_code |-> row.mcc_code,
         fri_net_amount |-> net,
         fri_abs_amount |-> Abs(net),
         fri_role |-> mapping.fri_role,
         fri_essential |-> mapping.essential,
         fri_needs_enrichment |-> mapping.needs_enrichment]

\* classify up to line 162: the rule pass over every row
RuleClassify(df) == [i \in 1..Len(df) |-> RuleRow(df[i])]

\* the body of the loop of _enrich_with_mcc for a row and an mcc cell
EnrichCell(row, cell) ==
    LET mcc == Strip(PyStr(cell))
    IN  IF row.fri_role = "BUFFER_SPENDING_UNCLASSIFIED" /\ cell.kind # "nan"
        THEN IF InCodes(mcc, ESSENTIAL_MCC_CODES)
             THEN [row EXCEPT !.fri_role = "BUFFER_ESSENTIAL",
                              !.fri_essential = TRUE,
                              !.fri_needs_enrichment = FALSE]
             ELSE IF InCodes(mcc, DISCRETIONARY_MCC_CODES)
             THEN [row EXCEPT !.fri_role = "BUFFER_DISCRETIONARY",
                              !.fri_essential = FALSE,
                              !.fri_needs_enrichment = FALSE]
             ELSE row
        ELSE row

\* the pass reading every row's code from the first row
EnrichWithMcc_FirstCell(df) ==
    [i \in 1..Len(df) |-> EnrichCell(df[i], df[1].mcc_code)]

\* the pass without the mask on the current role
EnrichWithMcc_NoMask(df) ==
    [i \in 1..Len(df) |->
        EnrichCell([df[i] EXCEPT !.fri_role = "BUFFER_SPENDING_UNCLASSIFIED"],
                   df[i].mcc_code)]

\* _enrich_with_mcc
EnrichWithMcc(df) == [i \in 1..Len(df) |-> EnrichCell(df[i], df[i].mcc_code)]

\* classify.  A DataFrame without the mcc_code column behaves as one whose
\* mcc_code cells are all NaN: the pass then changes nothing.  Rows are
\* addressed by position: the index labels of the DataFrame are unique (a
\* RangeIndex), so df.at reads and writes one row.
Classify(df) == EnrichWithMcc(RuleClassify(df))

\* ------------------------------------------------------------------------
\* Calendar and fixed-point helpers
\* ------------------------------------------------------------------------

\* the first day of each month, day 0 = 1 January 2025 (two years)
MonthStarts ==
    <<0, 31, 59, 90, 120, 151, 181, 212, 243, 273, 304, 334,
      365, 396, 424, 455, 485, 516, 546, 577, 608, 638, 669, 699>>

\* dt.to_period('M'): the index of the calendar month of a day
MonthOf(day) ==
    Cardinality({i \in 1..Len(MonthStarts) : MonthStarts[i] <= day})

RECURSIVE Pow10(_)
Pow10(k) == IF k = 0 THEN 1 ELSE 10 * Pow10(k - 1)

\* floor(n * 10^k / d) by long division, d > 0
RECURSIVE FixDiv(_, _, _)
FixDiv(n, d, k) ==
    IF k = 0 THEN n \div d
    ELSE (n \div d) * Pow10(k) + FixDiv((n % d) * 10, d, k - 1)

\* the largest r in lo..hi with r * r <= n
RECURSIVE SqrtSearch(_, _, _)
SqrtSearch(n, lo, hi) ==
    IF lo >= hi THEN lo
    ELSE LET mid == (lo + hi + 1) \div 2
         IN  IF mid * mid <= n THEN SqrtSearch(n, mid, hi)
             ELSE SqrtSearch(n, lo, mid - 1)

\* floor(sqrt(n)) for 0 <= n <= 10^8
ISqrt(n) == SqrtSearch(n, 0, 10000)

\* .sum() of the fri_net_amount column
RECURSIVE SumAll(_)
SumAll(df) == IF df = <<>> THEN 0 ELSE Head(df).fri_net_amount + SumAll(Tail(df))

\* an optional value: None, or Some(v)
None == <<>>

Some(v) == <<v>>

\* ------------------------------------------------------------------------
\* Configuration of the calculator (fri_calculator_split_v1.py, lines 46-68)
\* ------------------------------------------------------------------------

\* scale factors in hundredths
LIFE_STAGE_CONFIG ==
    <<[stage |-> "EARLY_CAREER", lo |-> 18, hi |-> 29, scale_factor |-> 3333],
      [stage |-> "ESTABLISHING", lo |-> 30, hi |-> 44, scale_factor |-> 1667],
      [stage |-> "CONSOLIDATING", lo |-> 45, hi |-> 59, scale_factor |-> 1111],
      [stage |-> "PRESERVING", lo |-> 60, hi |-> 99, scale_factor |-> 833]>>

Weights(b, s, m) == [buffer |-> b, stability |-> s, momentum |-> m]

\* weights in hundredths
WEIGHT_CONFIGS ==
    "STABLE_SALARIED" :> Weights(45, 30, 25)
 @@ "VARIABLE_INCOME" :> Weights(50, 20, 30)
 @@ "HIGH_VOLATILITY" :> Weights(55, 15, 30)

DATA_MODE_WEIGHTS ==
    "full_data" :> Weights(45, 30, 25)
 @@ "no_debt" :> Weights(55, 45, 0)
 @@ "short_history" :> Weights(60, 15, 25)
 @@ "new_user" :> Weights(70, 15, 15)

\* essential_ratio_fallback = 0.65, in twentieths
ESSENTIAL_RATIO_X20 == 13

\* ------------------------------------------------------------------------
\* Life stage (lines 791-800)
\* ------------------------------------------------------------------------

\* _get_life_stage: the index of the stage in LIFE_STAGE_CONFIG
GetLifeStage(age) ==
    IF age = None THEN 2
    ELSE LET hits == {i \in 1..Len(LIFE_STAGE_CONFIG) :
                        LIFE_STAGE_CONFIG[i].lo <= age[1]
                        /\ age[1] <= LIFE_STAGE_CONFIG[i].hi}
         IN  IF hits = {} THEN 2 ELSE CHOOSE i \in hits : \A j \in hits : i <= j

\* _get_scale_factor
GetScaleFactor(age) == LIFE_STAGE_CONFIG[GetLifeStage(age)].scale_factor

\* ------------------------------------------------------------------------
\* Buffer (lines 275-328)
\* ------------------------------------------------------------------------

\* df[df['transaction_date'] >= calc_date - timedelta(days=90)]
RecentWindow(df, calc_date) ==
    SelectSeq(df, LAMBDA r : r.transaction_date >= calc_date - 90)

\* layer 1: identified essential
IdentifiedEssential(recent) ==
    Abs(SumAll(SelectSeq(recent, LAMBDA r : r.fri_role \in ESSENTIAL_SPENDING_ROLES
                                  /\ r.fri_net_amount < 0)))

\* layer 2: the mask of line 292
MccEnrichedEssential(recent) ==
    Abs(SumAll(SelectSeq(recent, LAMBDA r : r.fri_role = "BUFFER_ESSENTIAL"
                                  /\ ~r.fri_needs_enrichment
                                  /\ r.fri_net_amount < 0)))

\* layer 3: unclassified spending
TotalUnclassified(recent) ==
    Abs(SumAll(SelectSeq(recent, LAMBDA r : r.fri_role \in UNCLASSIFIED_SPENDING_ROLES
                                  /\ r.fri_net_amount < 0)))

\* lines 308-312 without the final max(0.0, buffer)
BufferScore_NoFloor(liquid_assets, total_x20, scale_factor) ==
    IF total_x20 <= 0 THEN 10000
    ELSE LET months_x100 == FixDiv(liquid_assets * 45000, 761 * total_x20, 2)
         IN  Min(10000, (Min(months_x100, 2000) * scale_factor) \div 100)

\* lines 308-312 with the guard of line 308 replaced by the limit of the
\* ratio: no spending is 100 points only for positive liquid assets
BufferScore_NoGuard(liquid_assets, total_x20, scale_factor) ==
    IF total_x20 <= 0 THEN (IF liquid_assets > 0 THEN 10000 ELSE 0)
    ELSE LET months_x100 == FixDiv(liquid_assets * 45000, 761 * total_x20, 2)
         IN  Max(0, Min(10000, (Min(months_x100, 2000) * scale_factor) \div 100))

\* lines 305-312.  total_x20 is total_essential_3m in twentieths of a euro;
\* months_in_window = max(1, min(3, 90 / 30.44)) = 9000 / 3044, so
\* liquid / avg_monthly_essential = liquid * 45000 / (761 * total_x20).
\* The ratio is cut at 20 months before it is scaled: 20 months is above
\* 100 points for every scale factor.
BufferScore(liquid_assets, total_x20, scale_factor) ==
    IF total_x20 <= 0 THEN 10000
    ELSE LET months_x100 == FixDiv(liquid_assets * 45000, 761 * total_x20, 2)
         IN  Max(0, Min(10000, (Min(months_x100, 2000) * scale_factor) \div 100))

\* _calculate_buffer: the score and the audit detail
CalculateBuffer(df, current_balance, savings_balance, age, calc_date) ==
    LET liquid_assets == current_balance + savings_balance
        scale_factor == GetScaleFactor(age)
        recent == RecentWindow(df, calc_date)
        identified_essential == IdentifiedEssential(recent)
        mcc_enriched_essential == MccEnrichedEssential(recent)
        total_unclassified == TotalUnclassified(recent)
        estimated_x20 == total_unclassified * ESSENTIAL_RATIO_X20
        total_x20 == 20 * identified_essential + 20 * mcc_enriched_essential
                     + estimated_x20
    IN  [score |-> BufferScore(liquid_assets, total_x20, scale_factor),
         detail |->
           [liquid_assets |-> liquid_assets,
            current_balance |-> current_balance,
            savings_balance |-> savings_balance,
            scale_factor |-> scale_factor,
            life_stage |-> LIFE_STAGE_CONFIG[GetLifeStage(age)].stage,
            avg_monthly_essential_x100 |-> (total_x20 * 761) \div 450,
            identified_essential_3m |-> identified_essential,
            mcc_enriched_essential_3m |-> mcc_enriched_essential,
            unclassified_spending_3m |-> total_unclassified,
            estimated_essential_from_unclassified_x20 |-> estimated_x20,
            total_essential_3m_x20 |-> total_x20,
            buffer_months |->
                IF total_x20 > 0
                THEN Some(FixDiv(liquid_assets * 45000, 761 * total_x20, 2))
                ELSE None]]

\* ------------------------------------------------------------------------
\* Stability (lines 334-390)
\* ------------------------------------------------------------------------

\* the rows of income_df
IncomeRows(df, calc_date) ==
    SelectSeq(df, LAMBDA r : r.fri_role \in INCOME_ROLES
                             /\ r.transaction_date >= calc_date - 180
                             /\ r.fri_net_amount > 0)

\* the monthly sums without the reindex: months without income are skipped
MonthlyIncome_NoReindex(income_df, calc_date) ==
    LET first == MonthOf(calc_date - 180)
        last == MonthOf(calc_date)
        months == SelectSeq([i \in 1..(last - first + 1) |-> first + i - 1],
                    LAMBDA m : \E k \in 1..Len(income_df) :
                                  MonthOf(income_df[k].transaction_date) = m)
    IN  [i \in 1..Len(months) |->
            SumAll(SelectSeq(income_df,
                   LAMBDA r : MonthOf(r.transaction_date) = months[i]))]

\* groupby('month').sum() reindexed over period_range(six_months_ago,
\* calc_date, freq='M') with fill_value 0: one entry per calendar month
MonthlyIncome(income_df, calc_date) ==
    LET first == MonthOf(calc_date - 180)
        last == MonthOf(calc_date)
    IN  [i \in 1..(last - first + 1) |->
            SumAll(SelectSeq(income_df,
                   LAMBDA r : MonthOf(r.transaction_date) = first + i - 1))]

RECURSIVE SeqSum(_)
SeqSum(s) == IF s = <<>> THEN 0 ELSE Head(s) + SeqSum(Tail(s))

RECURSIVE SeqSumSq(_)
SeqSumSq(s) == IF s = <<>> THEN 0 ELSE Head(s) * Head(s) + SeqSumSq(Tail(s))

\* std(ddof=1) / mean in ten-thousandths, without the cap of min(1.0, ...)
CoefficientOfVariation_NoCap(values) ==
    LET n == Len(values)
        s == SeqSum(values)
    IN  SqrtSearch(FixDiv(n * (n * SeqSumSq(values) - s * s), (n - 1) * s * s, 8),
                   0, 46340)

\* min(1.0, std(ddof=1) / mean) in ten-thousandths, for a series of n >= 2
\* values with a positive sum: cv^2 = n (n sum(v^2) - sum(v)^2) / ((n-1) sum(v)^2)
CoefficientOfVariation(values) ==
    LET n == Len(values)
        s == SeqSum(values)
        num == n * (n * SeqSumSq(values) - s * s)
        den == (n - 1) * s * s
    IN  IF num >= den THEN 10000 ELSE ISqrt(FixDiv(num, den, 8))

\* _calculate_stability
CalculateStability(df, calc_date) ==
    LET income_df == IncomeRows(df, calc_date)
        income_values == MonthlyIncome(income_df, calc_date)
        n == Len(income_values)
        months_with_income == Cardinality({i \in 1..n : income_values[i] > 0})
        total == SeqSum(income_values)
    IN  IF income_df = <<>>
        THEN [score |-> 5000,
              detail |-> [status |-> "no_income_detected", monthly_income |-> <<>>,
                          mean_x100 |-> 0, cv |-> None, months_with_income |-> 0,
                          months_analyzed |-> None]]
        ELSE IF n < 2
        THEN [score |-> 5000,
              detail |-> [status |-> "insufficient_history",
                          monthly_income |-> income_values,
                          mean_x100 |-> FixDiv(total, n, 2), cv |-> None,
                          months_with_income |-> months_with_income,
                          months_analyzed |-> None]]
        ELSE IF total <= 0
        THEN [score |-> 0,
              detail |-> [status |-> "zero_mean_income",
                          monthly_income |-> income_values,
                          mean_x100 |-> 0, cv |-> None,
                          months_with_income |-> months_with_income,
                          months_analyzed |-> None]]
        ELSE LET cv == CoefficientOfVariation(income_values)
             IN  [score |-> Max(0, Min(10000, 10000 - cv)),
                  detail |-> [status |-> "computed",
                              monthly_income |-> income_values,
                              mean_x100 |-> FixDiv(total, n, 2), cv |-> Some(cv),
                              months_with_income |-> months_with_income,
                              months_analyzed |-> Some(n)]]

\* ------------------------------------------------------------------------
\* Momentum (lines 406-755)
\* ------------------------------------------------------------------------

\* the prior window: days 91-180 back
PriorWindow(df, calc_date) ==
    SelectSeq(df, LAMBDA r : r.transaction_date >= calc_date - 180
                             /\ r.transaction_date < calc_date - 90)

\* calc_nfr with the essential mask of the buffer, which holds the
\* repayments as well
CalcNfr_RepaymentsEssential(subset) ==
    LET income == SumAll(SelectSeq(subset, LAMBDA r : r.fri_role \in INCOME_ROLES
                                            /\ r.fri_net_amount > 0))
        essential_identified ==
            Abs(SumAll(SelectSeq(subset, LAMBDA r :
                    r.fri_role \in ESSENTIAL_SPENDING_ROLES
                    /\ r.fri_net_amount < 0)))
        discretionary_identified ==
            Abs(SumAll(SelectSeq(subset, LAMBDA r : r.fri_role = "BUFFER_DISCRETIONARY"
                                          /\ r.fri_net_amount < 0)))
        unclassified ==
            Abs(SumAll(SelectSeq(subset, LAMBDA r : r.fri_role \in UNCLASSIFIED_SPENDING_ROLES
                                          /\ r.fri_net_amount < 0)))
        essential_from_unclassified_x20 == unclassified * ESSENTIAL_RATIO_X20
        discretionary_from_unclassified_x20 ==
            unclassified * (20 - ESSENTIAL_RATIO_X20)
        total_essential_x20 == 20 * essential_identified
                               + essential_from_unclassified_x20
        total_discretionary_x20 == 20 * discretionary_identified
                                   + discretionary_from_unclassified_x20
        debt_repayment ==
            Abs(SumAll(SelectSeq(subset, LAMBDA r : r.fri_role \in DEBT_DECREASE_ROLES
                                          /\ r.fri_net_amount < 0)))
        debt_cost ==
            Abs(SumAll(SelectSeq(subset, LAMBDA r : r.fri_role \in DEBT_COST_ROLES
                                          /\ r.fri_net_amount < 0)))
        debt_service == debt_repayment + debt_cost
        nfr == IF income <= 0 THEN 0
               ELSE FixDiv(20 * income - total_essential_x20
                           - total_discretionary_x20 - 20 * debt_service,
                           20 * income, 4)
    IN  IF subset = <<>>
        THEN [nfr |-> 0,
              parts |-> [income |-> 0, essential_x20 |-> 0, discretionary_x20 |-> 0,
                         debt_service |-> 0, debt_repayment |-> 0, debt_cost |-> 0,
                         unclassified_total |-> 0,
                         unclassified_essential_est_x20 |-> 0,
                         unclassified_discretionary_est_x20 |-> 0]]
        ELSE [nfr |-> nfr,
              parts |-> [income |-> income,
                         essential_x20 |-> total_essential_x20,
                         discretionary_x20 |-> total_discretionary_x20,
                         debt_service |-> debt_service,
                         debt_repayment |-> debt_repayment,
                         debt_cost |-> debt_cost,
                         unclassified_total |-> unclassified,
                         unclassified_essential_est_x20 |->
                             essential_from_unclassified_x20,
                         unclassified_discretionary_est_x20 |->
                             discretionary_from_unclassified_x20]]

\* calc_nfr: NFR in ten-thousandths and the components of the window.
\* The two estimated parts of the unclassified spending are in twentieths.
CalcNfr(subset) ==
    LET income == SumAll(SelectSeq(subset, LAMBDA r : r.fri_role \in INCOME_ROLES
                                            /\ r.fri_net_amount > 0))
        essential_identified ==
            Abs(SumAll(SelectSeq(subset, LAMBDA r :
                    r.fri_role \in {"BUFFER_ESSENTIAL", "FEE_BANK", "TAX_LEVY"}
                    /\ r.fri_net_amount < 0)))
        discretionary_identified ==
            Abs(SumAll(SelectSeq(subset, LAMBDA r : r.fri_role = "BUFFER_DISCRETIONARY"
                                          /\ r.fri_net_amount < 0)))
        unclassified ==
            Abs(SumAll(SelectSeq(subset, LAMBDA r : r.fri_role \in UNCLASSIFIED_SPENDING_ROLES
                                          /\ r.fri_net_amount < 0)))
        essential_from_unclassified_x20 == unclassified * ESSENTIAL_RATIO_X20
        discretionary_from_unclassified_x20 ==
            unclassified * (20 - ESSENTIAL_RATIO_X20)
        total_essential_x20 == 20 * essential_identified
                               + essential_from_unclassified_x20
        total_discretionary_x20 == 20 * discretionary_identified
                                   + discretionary_from_unclassified_x20
        debt_repayment ==
            Abs(SumAll(SelectSeq(subset, LAMBDA r : r.fri_role \in DEBT_DECREASE_ROLES
                                          /\ r.fri_net_amount < 0)))
        debt_cost ==
            Abs(SumAll(SelectSeq(subset, LAMBDA r : r.fri_role \in DEBT_COST_ROLES
                                          /\ r.fri_net_amount < 0)))
        debt_service == debt_repayment + debt_cost
        nfr == IF income <= 0 THEN 0
               ELSE FixDiv(20 * income - total_essential_x20
                           - total_discretionary_x20 - 20 * debt_service,
                           20 * income, 4)
    IN  IF subset = <<>>
        THEN [nfr |-> 0,
              parts |-> [income |-> 0, essential_x20 |-> 0, discretionary_x20 |-> 0,
                         debt_service |-> 0, debt_repayment |-> 0, debt_cost |-> 0,
                         unclassified_total |-> 0,
                         unclassified_essential_est_x20 |-> 0,
                         unclassified_discretionary_est_x20 |-> 0]]
        ELSE [nfr |-> nfr,
              parts |-> [income |-> income,
                         essential_x20 |-> total_essential_x20,
                         discretionary_x20 |-> total_discretionary_x20,
                         debt_service |-> debt_service,
                         debt_repayment |-> debt_repayment,
                         debt_cost |-> debt_cost,
                         unclassified_total |-> unclassified,
                         unclassified_essential_est_x20 |->
                             essential_from_unclassified_x20,
                         unclassified_discretionary_est_x20 |->
                             discretionary_from_unclassified_x20]]

\* calc_net_debt_change counting outflow repayments only, without the refund
\* credits
CalcNetDebtChange_NoRefunds(subset) ==
    LET new_debt == SumAll(SelectSeq(subset, LAMBDA r : r.fri_role \in DEBT_INCREASE_ROLES
                                              /\ r.fri_net_amount > 0))
        repaid_outflows ==
            Abs(SumAll(SelectSeq(subset, LAMBDA r : r.fri_role \in DEBT_DECREASE_ROLES
                                          /\ r.fri_net_amount < 0)))
    IN  [change |-> new_debt - repaid_outflows,
         parts |-> [new_debt |-> new_debt, repaid |-> repaid_outflows,
                    repaid_outflows |-> repaid_outflows, refund_inflows |-> 0]]

\* calc_net_debt_change
CalcNetDebtChange(subset) ==
    LET new_debt == SumAll(SelectSeq(subset, LAMBDA r : r.fri_role \in DEBT_INCREASE_ROLES
                                              /\ r.fri_net_amount > 0))
        repaid_outflows ==
            Abs(SumAll(SelectSeq(subset, LAMBDA r : r.fri_role \in DEBT_DECREASE_ROLES
                                          /\ r.fri_net_amount < 0)))
        refund_inflows ==
            SumAll(SelectSeq(subset, LAMBDA r : r.fri_role \in DEBT_DECREASE_ROLES
                                      /\ r.fri_net_amount > 0))
        total_repaid == repaid_outflows + refund_inflows
    IN  [change |-> new_debt - total_repaid,
         parts |-> [new_debt |-> new_debt, repaid |-> total_repaid,
                    repaid_outflows |-> repaid_outflows,
                    refund_inflows |-> refund_inflows]]

\* np.tanh in ten-thousandths for an argument x >= 0 given in thousandths:
\* the rational approximation x (27 + x^2) / (27 + 9 x^2), which is odd,
\* increasing, 0 at 0 and reaches 1 at x = 3, where it is held
TanhPos(x_x1000) ==
    IF x_x1000 >= 3000 THEN 10000
    ELSE LET sq == x_x1000 * x_x1000
             factor == FixDiv(27000000 + sq, 27000000 + 9 * sq, 4)
         IN  Min(10000, (x_x1000 * factor) \div 1000)

\* the logistic curve (1 + tanh(x)) / 2, which is 1/2 at 0
Tanh_Logistic(x_x1000) ==
    IF x_x1000 < 0 THEN (10000 - TanhPos(-x_x1000)) \div 2
    ELSE (10000 + TanhPos(x_x1000)) \div 2

Tanh(x_x1000) == IF x_x1000 < 0 THEN -TanhPos(-x_x1000) ELSE TanhPos(x_x1000)

\* n / d cut toward zero at 10^-k, d > 0
TruncDiv(n, d, k) == IF n < 0 THEN -FixDiv(-n, d, k) ELSE FixDiv(n, d, k)

\* spending_ratios giving shares of 0 instead of None for a window without
\* income
SpendingRatios_ZeroShares(parts) ==
    LET inc20 == 20 * Max(1, parts.income)
    IN  [essential_pct |-> Some(IF parts.income <= 0 THEN 0
                                ELSE FixDiv(parts.essential_x20, inc20, 3)),
         discretionary_pct |-> Some(IF parts.income <= 0 THEN 0
                                    ELSE FixDiv(parts.discretionary_x20, inc20, 3)),
         debt_service_pct |-> Some(IF parts.income <= 0 THEN 0
                                   ELSE FixDiv(20 * parts.debt_service, inc20, 3)),
         savings_rate_pct |-> Some(0)]

\* spending_ratios: each share of income in tenths of a percent, or None
SpendingRatios(parts) ==
    IF parts.income <= 0
    THEN [essential_pct |-> None, discretionary_pct |-> None,
          debt_service_pct |-> None, savings_rate_pct |-> None]
    ELSE LET inc20 == 20 * parts.income
             spent == parts.essential_x20 + parts.discretionary_x20
                      + 20 * parts.debt_service
         IN  [essential_pct |-> Some(FixDiv(parts.essential_x20, inc20, 3)),
              discretionary_pct |-> Some(FixDiv(parts.discretionary_x20, inc20, 3)),
              debt_service_pct |-> Some(FixDiv(20 * parts.debt_service, inc20, 3)),
              savings_rate_pct |-> Some(Max(0, FixDiv(inc20 - spent, inc20, 3)))]

\* interpret_nfr_trend calling every change of sign a trend
InterpretNfrTrend_AnyChange(d_nfr) ==
    IF d_nfr > 0 THEN "improving"
    ELSE IF d_nfr < 0 THEN "declining" ELSE "stable"

\* interpret_nfr_trend, d_nfr in ten-thousandths
InterpretNfrTrend(d_nfr) ==
    IF d_nfr > 200 THEN "improving"
    ELSE IF d_nfr < -200 THEN "declining" ELSE "stable"

\* interpret_debt_trend, d_d in ten-thousandths
InterpretDebtTrend(d_d) ==
    IF d_d > 200 THEN "reducing"
    ELSE IF d_d < -200 THEN "increasing" ELSE "stable"

\* interpret_momentum
InterpretMomentum(score) ==
    IF score >= 7000 THEN "strong_positive"
    ELSE IF score >= 5500 THEN "mild_positive"
    ELSE IF score >= 4500 THEN "neutral"
    ELSE IF score >= 3000 THEN "mild_negative"
    ELSE "strong_negative"

\* _calculate_momentum with alpha = 0.6 and k = 2.0.
\* delta_nfr = (nfr_recent - nfr_prior) / 3 and delta_d are in
\* ten-thousandths; combined_raw = 0.6 delta_nfr + 0.4 delta_d is kept in
\* hundred-thousandths (6 delta_nfr + 4 delta_d), combined_scaled = 2
\* combined_raw goes to tanh in thousandths.
CalculateMomentum(df, calc_date) ==
    LET recent == RecentWindow(df, calc_date)
        prior == PriorWindow(df, calc_date)
        nfr_recent == CalcNfr(recent)
        nfr_prior == CalcNfr(prior)
        delta_nfr == TruncDiv(nfr_recent.nfr - nfr_prior.nfr, 3, 0)
        debt_recent == CalcNetDebtChange(recent)
        debt_prior == CalcNetDebtChange(prior)
        income_sum == nfr_recent.parts.income + nfr_prior.parts.income
        avg_income_x2 ==
            IF income_sum <= 0
            THEN 2 * Max(Max(nfr_recent.parts.income, nfr_prior.parts.income), 1)
            ELSE income_sum
        delta_d == TruncDiv(-2 * (debt_recent.change - debt_prior.change),
                            avg_income_x2, 4)
        combined_raw == 6 * delta_nfr + 4 * delta_d
        combined_scaled == TruncDiv(2 * combined_raw, 100, 0)
        momentum == Max(0, Min(10000, 5000 + Tanh(combined_scaled) \div 2))
        recent_costs ==
            SelectSeq(df, LAMBDA r : r.fri_role \in DEBT_COST_ROLES
                                     /\ r.transaction_date >= calc_date - 90)
    IN  [score |-> momentum,
         detail |->
           [status |-> IF avg_income_x2 > 2 THEN "computed"
                       ELSE "insufficient_income",
            nfr_recent |-> nfr_recent.nfr,
            nfr_prior |-> nfr_prior.nfr,
            delta_nfr |-> delta_nfr,
            nfr_recent_components |-> nfr_recent.parts,
            nfr_prior_components |-> nfr_prior.parts,
            spending_ratios_recent |-> SpendingRatios(nfr_recent.parts),
            spending_ratios_prior |-> SpendingRatios(nfr_prior.parts),
            debt_change_recent |-> debt_recent.change,
            debt_change_prior |-> debt_prior.change,
            debt_parts_recent |-> debt_recent.parts,
            debt_parts_prior |-> debt_prior.parts,
            delta_d_normalized |-> delta_d,
            combined_raw |-> combined_raw,
            combined_scaled |-> combined_scaled,
            avg_income_normalizer_x2 |-> avg_income_x2,
            nfr_trend |-> InterpretNfrTrend(delta_nfr),
            debt_trend |-> InterpretDebtTrend(delta_d),
            momentum_interpretation |-> InterpretMomentum(momentum),
            has_active_debt |->
                \E i \in 1..Len(df) :
                    df[i].fri_role \in DEBT_INCREASE_ROLES \cup DEBT_DECREASE_ROLES,
            debt_costs_3m |-> Abs(SumAll(recent_costs)),
            bnpl_new_products_recent |->
                Len(SelectSeq(recent, LAMBDA r : r.fri_role \in DEBT_INCREASE_ROLES)),
            snooze_usage_recent |->
                Len(SelectSeq(recent, LAMBDA r :
                    r.TransactionSubSubType = "COMMISSION RECEIVING SNOOZE"))]]

\* ------------------------------------------------------------------------
\* Data mode, income segment, weights (lines 761-785)
\* ------------------------------------------------------------------------

RECURSIVE MinDate(_)
MinDate(df) ==
    IF Len(df) = 1 THEN df[1].transaction_date
    ELSE Min(df[1].transaction_date, MinDate(Tail(df)))

\* has_debt of line 766
HasDebt(df) ==
    \E i \in 1..Len(df) :
        df[i].fri_role \in DEBT_INCREASE_ROLES \cup DEBT_DECREASE_ROLES

\* months of line 765: max(1, int(days / 30.44))
MonthsAvailable(df, calc_date) ==
    Max(1, TruncDiv((calc_date - MinDate(df)) * 100, 3044, 0))

\* _determine_data_mode
DetermineDataMode(df, calc_date) ==
    IF df = <<>> THEN [data_mode |-> "new_user", months |-> 0]
    ELSE LET months == MonthsAvailable(df, calc_date)
         IN  [data_mode |-> IF months < 2 THEN "new_user"
                            ELSE IF months < 6 THEN "short_history"
                            ELSE IF ~HasDebt(df) THEN "no_debt"
                            ELSE "full_data",
              months |-> months]

\* _determine_income_segment
DetermineIncomeSegment(stability) ==
    IF stability >= 8500 THEN "STABLE_SALARIED"
    ELSE IF stability >= 6000 THEN "VARIABLE_INCOME"
    ELSE "HIGH_VOLATILITY"

\* _select_weights reading the income segment's table in every data mode
SelectWeights_BySegment(data_mode, income_segment) == WEIGHT_CONFIGS[income_segment]

\* _select_weights
SelectWeights(data_mode, income_segment) ==
    IF data_mode # "full_data" THEN DATA_MODE_WEIGHTS[data_mode]
    ELSE WEIGHT_CONFIGS[income_segment]

\* ------------------------------------------------------------------------
\* Data quality (lines 806-846), sub-scores in ten-thousandths
\* ------------------------------------------------------------------------

SpendingRoles ==
    {"BUFFER_ESSENTIAL", "BUFFER_DISCRETIONARY", "BUFFER_SPENDING_UNCLASSIFIED"}

\* _assess_data_quality
AssessDataQuality(df, months_available) ==
    LET months == {MonthOf(df[i].transaction_date) : i \in 1..Len(df)}
        months_with_5plus ==
            Cardinality({m \in months :
                Len(SelectSeq(df, LAMBDA r : MonthOf(r.transaction_date) = m)) >= 5})
        tx_completeness ==
            IF months_available > 0
            THEN Min(10000, FixDiv(months_with_5plus, Max(1, months_available), 4))
            ELSE 0
        income_detection ==
            Min(10000, FixDiv(Len(SelectSeq(df, LAMBDA r : r.fri_role \in INCOME_ROLES)),
                              Max(1, months_available), 4))
        spending == Len(SelectSeq(df, LAMBDA r : r.fri_role \in SpendingRoles))
        categorization_rate ==
            IF spending > 0
            THEN FixDiv(Len(SelectSeq(df, LAMBDA r :
                            r.fri_role \in SpendingRoles
                            /\ r.fri_role # "BUFFER_SPENDING_UNCLASSIFIED")),
                        spending, 4)
            ELSE 0
        history_depth == Min(10000, FixDiv(months_available, 6, 4))
        overall == (30 * tx_completeness + 25 * income_detection
                    + 25 * categorization_rate + 20 * history_depth) \div 100
    IN  [overall_confidence |-> (overall + 5) \div 10,
         is_provisional |-> overall < 6000,
         detail |-> [tx_completeness |-> tx_completeness,
                     income_detection |-> income_detection,
                     categorization_rate |-> categorization_rate,
                     history_depth |-> history_depth],
         months_available |-> months_available]

\* ------------------------------------------------------------------------
\* Coaching signals (lines 852-1062); the messages are left out
\* ------------------------------------------------------------------------

\* signals.append(...) under a condition
SignalIf(condition, type, signal, severity) ==
    IF condition
    THEN <<[type |-> type, signal |-> signal, severity |-> severity]>>
    ELSE <<>>

\* the approximation with the three components weighted alike
FriApprox_EqualWeights(buffer, stability, momentum) ==
    34 * buffer + 33 * stability + 33 * momentum

\* lines 972-973: 0.45 buffer + 0.30 stability + 0.25 momentum, the scores
\* in hundredths and the sum in ten-thousandths
FriApprox(buffer, stability, momentum) ==
    45 * buffer + 30 * stability + 25 * momentum

\* _detect_coaching_signals; percentages are in tenths of a percent
DetectCoachingSignals(df, buffer, stability, momentum, momentum_detail, calc_date) ==
    LET recent == RecentWindow(df, calc_date)
        snooze_count ==
            IF momentum_detail.snooze_usage_recent = 0
            THEN Len(SelectSeq(recent, LAMBDA r :
                     r.TransactionSubSubType = "COMMISSION RECEIVING SNOOZE"))
            ELSE momentum_detail.snooze_usage_recent
        debt_costs == momentum_detail.debt_costs_3m
        avg_income_x2 == momentum_detail.avg_income_normalizer_x2
        bnpl_new == momentum_detail.bnpl_new_products_recent
        nfr_trend == momentum_detail.nfr_trend
        debt_trend == momentum_detail.debt_trend
        momentum_interp == momentum_detail.momentum_interpretation
        ratios_recent == momentum_detail.spending_ratios_recent
        ratios_prior == momentum_detail.spending_ratios_prior
        savings_pct == ratios_recent.savings_rate_pct
        essential_pct == ratios_recent.essential_pct
        disc_recent == ratios_recent.discretionary_pct
        disc_prior == ratios_prior.discretionary_pct
        debt_svc_pct == ratios_recent.debt_service_pct
        debt_parts == momentum_detail.debt_parts_recent
        atm_spending ==
            SumAll(SelectSeq(recent, LAMBDA r :
                       r.TransactionSubSubType = "ANALIPSI APO ATM"))
        total_spending ==
            SumAll(SelectSeq(recent, LAMBDA r : r.fri_role \in SpendingRoles))
    IN  SignalIf(snooze_count > 0, "DISTRESS", "bnpl_payment_delay",
                 IF snooze_count > 1 THEN "HIGH" ELSE "MEDIUM")
        \o SignalIf(debt_costs > 0, "DISTRESS", "debt_cost_burden",
                    IF debt_costs > 100 \/ 40 * debt_costs > avg_income_x2
                    THEN "HIGH" ELSE "MEDIUM")
        \o SignalIf(bnpl_new > 1 /\ momentum_detail.has_active_debt,
                    "DISTRESS", "multiple_new_bnpl",
                    IF bnpl_new > 3 THEN "HIGH" ELSE "MEDIUM")
        \o SignalIf(nfr_trend = "declining", "WARNING", "declining_nfr_trajectory",
                    IF savings_pct # None /\ savings_pct[1] < 50
                    THEN "HIGH" ELSE "MEDIUM")
        \o SignalIf(momentum < 4000
                        /\ momentum_interp \in {"mild_negative", "strong_negative"},
                    "WARNING", "declining_trajectory",
                    IF momentum_interp = "strong_negative" THEN "HIGH" ELSE "MEDIUM")
        \o SignalIf(debt_trend = "increasing", "WARNING", "increasing_debt",
                    IF debt_parts.new_debt > debt_parts.repaid * 2
                    THEN "HIGH" ELSE "MEDIUM")
        \o SignalIf(buffer < 3000, "WARNING", "low_buffer",
                    IF buffer < 1500 THEN "HIGH" ELSE "MEDIUM")
        \o SignalIf(essential_pct # None /\ essential_pct[1] > 850,
                    "WARNING", "essential_spending_squeeze",
                    IF essential_pct # None /\ essential_pct[1] > 950
                    THEN "HIGH" ELSE "MEDIUM")
        \o SignalIf(FriApprox(buffer, stability, momentum) < 300000,
                    "CRITICAL", "fri_below_threshold", "CRITICAL")
        \o SignalIf(debt_trend = "reducing", "POSITIVE", "active_debt_reduction",
                    "LOW")
        \o SignalIf(nfr_trend = "improving", "POSITIVE",
                    "improving_savings_behavior", "LOW")
        \o SignalIf(momentum_interp = "strong_positive", "POSITIVE",
                    "strong_momentum", "LOW")
        \o SignalIf(/\ disc_recent # None /\ disc_prior # None
                    /\ Abs(disc_recent[1] - disc_prior[1]) > 50,
                    "INSIGHT", "discretionary_spending_shift", "LOW")
        \o SignalIf(total_spending < 0
                        /\ 5 * Abs(atm_spending) > Abs(total_spending),
                    "INSIGHT", "high_cash_usage", "LOW")
        \o SignalIf(debt_svc_pct # None /\ debt_svc_pct[1] > 200,
                    "INSIGHT", "high_debt_service_ratio",
                    IF debt_svc_pct # None /\ debt_svc_pct[1] > 300
                    THEN "MEDIUM" ELSE "LOW")

\* ------------------------------------------------------------------------
\* FRICalculator.calculate (lines 218-269)
\* ------------------------------------------------------------------------

\* line 226 reading the clock even when a date is passed
CalcDate_AlwaysNow(calculation_date, clock) == clock

\* line 226: calculation_date or datetime.now()
CalcDate(calculation_date, clock) ==
    IF calculation_date = None THEN clock ELSE calculation_date[1]

\* lines 242-247: np.clip of the weighted sum
TotalScore(weights, buffer, stability, momentum) ==
    Max(0, Min(10000, (weights.buffer * buffer + weights.stability * stability
                       + weights.momentum * momentum) \div 100))

\* the FRIResult for a classified DataFrame and a calculation date
Score(df, current_balance, savings_balance, age, calc_date) ==
    LET mode == DetermineDataMode(df, calc_date)
        buffer == CalculateBuffer(df, current_balance, savings_balance, age,
                                  calc_date)
        stability == CalculateStability(df, calc_date)
        momentum == CalculateMomentum(df, calc_date)
        income_segment == DetermineIncomeSegment(stability.score)
        weights == SelectWeights(mode.data_mode, income_segment)
        data_quality == AssessDataQuality(df, mode.months)
    IN  [total_score |-> TotalScore(weights, buffer.score, stability.score,
                                    momentum.score),
         buffer |-> buffer.score,
         stability |-> stability.score,
         momentum |-> momentum.score,
         weights |-> weights,
         data_mode |-> mode.data_mode,
         income_segment |-> income_segment,
         confidence |-> data_quality.overall_confidence,
         calculation_date |-> calc_date,
         buffer_detail |-> buffer.detail,
         stability_detail |-> stability.detail,
         momentum_detail |-> momentum.detail,
         data_quality |-> data_quality,
         coaching_signals |->
             DetectCoachingSignals(df, buffer.score, stability.score,
                                   momentum.score, momentum.detail, calc_date)]

\* calculate(transactions, current_balance, savings_balance, age,
\* calculation_date) at the clock time `clock`
CalculateResult(transactions, current_balance, savings_balance, age, calculation_date, clock) ==
    Score(Classify(transactions), current_balance, savings_balance, age,
          CalcDate(calculation_date, clock))

\* the two weight dicts as the import of the module leaves them
ImportedTables ==
    [WEIGHT_CONFIGS |-> WEIGHT_CONFIGS, DATA_MODE_WEIGHTS |-> DATA_MODE_WEIGHTS]

\* the dict _select_weights returns, by name and key: it is the table's own
\* entry, not a copy
WeightsEntry(data_mode, income_segment) ==
    IF data_mode # "full_data" THEN <<"DATA_MODE_WEIGHTS", data_mode>>
    ELSE <<"WEIGHT_CONFIGS", income_segment>>

\* lines 239-247 for the dicts as they are at the time of the call: the
\* weights are the entry's present content and the total is their sum
WithTables(live, fri) ==
    LET entry == WeightsEntry(fri.data_mode, fri.income_segment)
        weights == live[entry[1]][entry[2]]
    IN  [fri EXCEPT !.weights = weights,
                    !.total_score = TotalScore(weights, fri.buffer, fri.stability,
                                               fri.momentum)]

\* the columns of a transactions DataFrame
AllColumns ==
    {"transaction_date", "TransactionType", "TransactionSubSubType",
     "TransactionDescription", "CreditAmountLC", "DebitAmountLC", "mcc_code"}

\* df.columns; an empty frame of the model carries every column
ColumnsOf(df) == IF df = <<>> THEN AllColumns ELSE DOMAIN df[1]

\* the rows as the loop of classify reads them with row.get (lines 153,
\* 170-171): a column the frame lacks reads as None, written "(no column)",
\* the description as ''
RowsRead(df) ==
    [i \in 1..Len(df) |->
        [c \in AllColumns |->
            IF c \in DOMAIN df[i] THEN df[i][c]
            ELSE IF c = "TransactionDescription" THEN NoDesc
            ELSE IF c = "mcc_code" THEN MccNull
            ELSE "(no column)"]]

\* line 147: df['CreditAmountLC'] and df['DebitAmountLC'] raise KeyError for
\* a frame without the column
ClassifyRaises(df) ==
    "CreditAmountLC" \notin ColumnsOf(df) \/ "DebitAmountLC" \notin ColumnsOf(df)

\* an exception leaving calculate: what was raised and in which method
RaisedError(error, column, method) ==
    [raised |-> error, column |-> column, method |-> method]

\* a balance that is None instead of a number; no balance of the bank is
\* this number
NullBalance == -888888

\* calculate for any frame and the weight dicts as they are: the FRIResult,
\* or the KeyError of line 147 (in classify), the TypeError of line 279
\* (None + number) or the KeyError of line 283 (both in _calculate_buffer,
\* after classify and _determine_data_mode returned)
CalculateOutcome(live, transactions, current_balance, savings_balance, age, calculation_date, clock) ==
    IF "CreditAmountLC" \notin ColumnsOf(transactions)
    THEN RaisedError("KeyError", "CreditAmountLC", "classify")
    ELSE IF "DebitAmountLC" \notin ColumnsOf(transactions)
    THEN RaisedError("KeyError", "DebitAmountLC", "classify")
    ELSE IF current_balance = NullBalance \/ savings_balance = NullBalance
    THEN RaisedError("TypeError", "balance", "_calculate_buffer")
    ELSE IF "transaction_date" \notin ColumnsOf(transactions)
    THEN RaisedError("KeyError", "transaction_date", "_calculate_buffer")
    ELSE WithTables(live, CalculateResult(RowsRead(transactions), current_balance,
                                          savings_balance, age, calculation_date,
                                          clock))

\* balance_history.get(month_key, last value or 0) for a dict given as the
\* sequence of its (month, balance) items in insertion order
BalanceOf(balance_history, month_key) ==
    LET hits == SelectSeq(balance_history, LAMBDA item : item.month = month_key)
    IN  IF hits # <<>> THEN hits[1].balance
        ELSE IF balance_history # <<>>
        THEN balance_history[Len(balance_history)].balance
        ELSE 0

\* savings_history.get(month_key, 0)
SavingsOf(savings_history, month_key) ==
    LET hits == SelectSeq(savings_history, LAMBDA item : item.month = month_key)
    IN  IF hits # <<>> THEN hits[1].balance ELSE 0

\* calculate as one turn of the loop of calculate_monthly_history calls it
\* (lines 1083-1099): on the transactions up to calc_date, with the
\* balances recorded for the month of calc_date
MonthOutcome(live, transactions, balance_history, savings_history, age, clock, i) ==
    CHOOSE fri \in {CalculateOutcome(live, tx_subset, current_balance,
                                     savings_balance, age, Some(calc_date), clock) :
                        calc_date \in {clock - 30 * i},
                        tx_subset \in {SelectSeq(transactions, LAMBDA r :
                                           r.transaction_date <= clock - 30 * i)},
                        current_balance \in
                            {BalanceOf(balance_history, MonthOf(clock - 30 * i))},
                        savings_balance \in
                            {SavingsOf(savings_history, MonthOf(clock - 30 * i))}} :
        TRUE

\* the turn i of the loop calls calculate (the subset is not empty) and
\* calculate raises
MonthFails(live, transactions, balance_history, savings_history, age, clock, i) ==
    /\ \E k \in 1..Len(transactions) :
           transactions[k].transaction_date <= clock - 30 * i
    /\ "raised" \in DOMAIN MonthOutcome(live, transactions, balance_history,
                                        savings_history, age, clock, i)

\* lines 1100-1108: the dict appended for the month's result, nothing when
\* calculate raised (the exception is logged)
Appended(month_key, fri) ==
    IF "raised" \in DOMAIN fri THEN <<>>
    ELSE <<[month |-> month_key, total |-> fri.total_score,
            buffer |-> fri.buffer, stability |-> fri.stability,
            momentum |-> fri.momentum, confidence |-> fri.confidence,
            data_mode |-> fri.data_mode]>>

\* one turn of the loop of calculate_monthly_history (lines 1082-1108): the
\* entry appended for i, or no entry (an empty subset, or an exception of
\* calculate)
HistoryEntry(live, transactions, balance_history, savings_history, age, clock, i) ==
    IF \A k \in 1..Len(transactions) :
           transactions[k].transaction_date > clock - 30 * i
    THEN <<>>
    ELSE Appended(MonthOf(clock - 30 * i),
                  MonthOutcome(live, transactions, balance_history,
                               savings_history, age, clock, i))

\* the loop without the try of line 1093 around calculate, the caller
\* keeping what was appended before the first failing month
RECURSIVE HistoryEntries_StopAtFailure(_, _, _, _, _, _, _)
HistoryEntries_StopAtFailure(live, transactions, balance_history, savings_history, age, clock, i) ==
    IF i < 0 \/ MonthFails(live, transactions, balance_history, savings_history,
                           age, clock, i)
    THEN <<>>
    ELSE HistoryEntry(live, transactions, balance_history, savings_history, age,
                      clock, i)
         \o HistoryEntries_StopAtFailure(live, transactions, balance_history,
                                         savings_history, age, clock, i - 1)

\* the results list after the turns i = n_months - 1 down to i
RECURSIVE HistoryEntries(_, _, _, _, _, _, _)
HistoryEntries(live, transactions, balance_history, savings_history, age, clock, i) ==
    IF i < 0 THEN <<>>
    ELSE HistoryEntry(live, transactions, balance_history, savings_history, age,
                      clock, i)
         \o HistoryEntries(live, transactions, balance_history, savings_history,
                           age, clock, i - 1)

\* calculate_monthly_history: the list of entries, or the KeyError of line
\* 1088 for a frame without transaction_date
MonthlyHistory(live, transactions, balance_history, savings_history, age, n_months, clock) ==
    IF n_months > 0 /\ "transaction_date" \notin ColumnsOf(transactions)
    THEN RaisedError("KeyError", "transaction_date", "calculate_monthly_history")
    ELSE [entries |-> HistoryEntries(live, transactions, balance_history,
                                     savings_history, age, clock, n_months - 1)]

\* ------------------------------------------------------------------------
\* Inputs of the model
\* ------------------------------------------------------------------------

\* how many transactions are appended to a history
MaxAdded == 2

\* how many days the clock advances
MaxTicks == 1

Row(type, subsub, desc, mcc, credit, debit, date) ==
    [transaction_date |-> date, TransactionType |-> type,
     TransactionSubSubType |-> subsub, TransactionDescription |-> desc,
     CreditAmountLC |-> credit, DebitAmountLC |-> debit, mcc_code |-> mcc]

Salary(amount, date) ==
    Row("Receive Credit Transfer", "SAVINGS DEPOSIT", NoDesc, MccNull, amount, 0, date)

DirectDebit(amount, date) ==
    Row("Direct Debit Payment", "PAGIES ENTOLES DIAS CREDIT DDD", NoDesc, MccNull,
        0, amount, date)

CardPayment(amount, mcc, date) ==
    Row("Withdrawal Transaction", "ANALIPSI TAMIEUTIRIOU GIA POS", NoDesc, mcc,
        0, amount, date)

\* a transaction no table knows
Unmapped(credit, debit, date) ==
    Row("Unknown Type", "UNKNOWN SUBTYPE", NoDesc, MccNull, credit, debit, date)

\* The clock starts on day 300 (28 October 2025); day 120 is 1 May 2025.
\* A salaried customer: the same salary in seven consecutive months.
SalariedHistory ==
    <<Salary(600, 110), Salary(600, 143), Salary(600, 174), Salary(600, 204),
      Salary(600, 235), Salary(600, 265), Salary(600, 295)>>

\* a customer with irregular income, spending and instalment debt
IndebtedHistory ==
    <<Row("Withdrawal Transaction", "COMMISSION RECEIVING ATM", NoDesc, MccNull,
          0, 10, 100),
      Row("Create Bnpl Account", "KATATHESEIS TAMIEUTIRIOU", NoDesc, MccNull,
          400, 0, 190),
      Salary(300, 200), CardPayment(300, MccNull, 270), DirectDebit(200, 280),
      Row("Bnpl Account Payment", "ANALIPSI TAMIEUTIRIOU", NoDesc, MccNull,
          0, 100, 285),
      Salary(500, 290)>>

Histories == {<<>>, SalariedHistory, IndebtedHistory}

\* the transactions appended to a history
Catalogue ==
    {Unmapped(0, 250, 90), Unmapped(80, 0, 297),
     Row("Savings Account Transfer", "ANALIPSI TAMIEUTIRIOU", NoDesc, MccNull,
         0, 500, 280),
     Row("Deposit Transaction", "VODAFONE CU Cash Back", NoDesc, MccNull,
         40, 0, 250),
     DirectDebit(150, 290), CardPayment(120, MccStr("5411"), 285),
     CardPayment(200, MccNull, 275), Salary(300, 292),
     Row("Create Bnpl Account", "KATATHESEIS TAMIEUTIRIOU", NoDesc, MccNull,
         400, 0, 260),
     Row("Change Payment Date On Bnpl Account", "COMMISSION RECEIVING SNOOZE",
         NoDesc, MccNull, 0, 20, 288)}

\* the rows of the classifier runs: every rule layer, the conflicts between
\* layers, and every kind of mcc cell
ClassifierRows ==
    {Row("Withdrawal Transaction", "MANUAL EXERCHOMENO EMVASMA TIPS", "Commission",
         MccStr("5411"), 0, 30, 280),
     CardPayment(50, MccStr("5411"), 281), CardPayment(50, MccPadded("5812"), 282),
     CardPayment(50, MccFloat("5411"), 283), CardPayment(50, MccStr("9999"), 284),
     CardPayment(50, MccNull, 285),
     Row("Withdrawal Transaction", "A NEW SUBTYPE", "Commission", MccInt("5912"),
         0, 60, 286),
     Row("Unknown Type", "UNKNOWN SUBTYPE", "Tax", MccStr("5411"), 0, 15, 287),
     Row("Unknown Type", "UNKNOWN SUBTYPE", "not a known phrase", MccStr("5812"),
         NaN, 70, 288),
     Row("Receive Credit Transfer Instant",
         "PROMITHEIA APO KINISI KEFALAION (INSTANT)", NoDesc, MccNull, 0, 2, 289),
     Row("Deposit Transaction", "nan", "Credit Interests", MccNull, 25, NaN, 290),
     Row("Direct Debit Payment", "PAGIES ENTOLES DIAS CREDIT DDD", "Expenses",
         MccStr("5812"), 0, 90, 291)}

Customer(current, savings, age) ==
    [current_balance |-> current, savings_balance |-> savings, age |-> age]

\* overdrawn, empty and funded accounts; every life stage, no age, and an
\* age outside every bracket
Customers ==
    {Customer(-800, 0, None), Customer(-500, 500, Some(25)),
     Customer(0, 0, Some(70)), Customer(300, 0, Some(50)),
     Customer(2000, 500, Some(35)), Customer(900, 100, Some(16))}

\* the columns calculate is documented to need
RequiredColumns ==
    {"transaction_date", "TransactionType", "TransactionSubSubType",
     "CreditAmountLC", "DebitAmountLC"}

\* df.drop(columns=[column])
WithoutColumn(df, column) ==
    [i \in 1..Len(df) |-> [c \in DOMAIN df[i] \ {column} |-> df[i][c]]]

\* a dict item of balance_history or savings_history
Item(month, balance) == [month |-> month, balance |-> balance]

\* no balance known; the balance of October 2025; the balances of September
\* and October 2025; the same with None for September; the balances of
\* three months with None for August
BalanceHistories ==
    {<<>>, <<Item(10, 300)>>, <<Item(9, 2000), Item(10, -500)>>,
     <<Item(9, NullBalance), Item(10, 300)>>,
     <<Item(8, NullBalance), Item(9, 900), Item(10, 300)>>}

SavingsHistories == {<<>>, <<Item(10, 500)>>}

\* the n_months argument
HistoryLengths == {2, 6}

\* the days calculate_monthly_history is called on: 28 and 31 October 2025,
\* 1 March 2026
HistoryDays == {300, 303, 424}

\* snooze commissions charged in the recent window and given back
CostRows(charged, reversed, date) ==
    (IF charged > 0
     THEN <<Row("Change Payment Date On Bnpl Account", "COMMISSION RECEIVING SNOOZE",
                NoDesc, MccNull, 0, charged, date)>>
     ELSE <<>>)
    \o (IF reversed > 0
        THEN <<Row("Change Payment Date On Bnpl Account",
                   "COMMISSION RECEIVING SNOOZE", NoDesc, MccNull, reversed, 0,
                   date + 1)>>
        ELSE <<>>)

\* (charged, reversed): no cost; a small and a large commission; a
\* commission given back in full and in part
CostActivities == {<<0, 0>>, <<20, 0>>, <<120, 0>>, <<20, 20>>, <<120, 30>>}

\* the weights a caller writes into a result, in hundredths
EditedWeights == {90}

\* the calculation_date argument: omitted, or 28 September 2025
DateArgs == {None, Some(270)}

\* One income payment per calendar month: pattern[i] is the amount paid in
\* the i-th month from first_month on the day payday of the month, 0 for a
\* month without a payment.
MonthlyIncomeHistory(pattern, first_month, payday) ==
    LET paid == SelectSeq([i \in 1..Len(pattern) |-> i], LAMBDA i : pattern[i] > 0)
    IN  [k \in 1..Len(paid) |->
            Salary(pattern[paid[k]], MonthStarts[first_month + paid[k] - 1] + payday - 1)]

\* no income; the same amount in six and in seven consecutive months;
\* income in one month only; a month without income between two with
\* income; amounts that vary
IncomePatterns ==
    {<<0, 0, 0, 0, 0, 0, 0>>,
     <<600, 600, 600, 600, 600, 600, 0>>,
     <<600, 600, 600, 600, 600, 600, 600>>,
     <<0, 0, 0, 0, 0, 800, 0>>,
     <<0, 0, 0, 500, 0, 500, 0>>,
     <<300, 0, 450, 600, 0, 750, 200>>}

\* April and May 2025
FirstMonths == {4, 5}

PayDays == {1, 15, 25}

\* 28 September, 3 October, 28 October and 2 November 2025: the 180 days up
\* to the first and the third span six calendar months, the others seven
CalcDays == {270, 275, 300, 305}

IncomeHistories ==
    {MonthlyIncomeHistory(pattern, m, d) :
        pattern \in IncomePatterns, m \in FirstMonths, d \in PayDays}

\* what one 90-day window holds: income, essential spending by direct debit,
\* a new instalment plan, an instalment paid, an instalment plan refunded
WindowActivity(income, essential, new_debt, repaid, refund) ==
    [income |-> income, essential |-> essential, new_debt |-> new_debt,
     repaid |-> repaid, refund |-> refund]

\* the rows of a window's activity, the first dated date
WindowRows(activity, date) ==
    (IF activity.income > 0 THEN <<Salary(activity.income, date)>> ELSE <<>>)
    \o (IF activity.essential > 0 THEN <<DirectDebit(activity.essential, date + 1)>>
        ELSE <<>>)
    \o (IF activity.new_debt > 0
        THEN <<Row("Create Bnpl Account", "KATATHESEIS TAMIEUTIRIOU", NoDesc, MccNull,
                   activity.new_debt, 0, date + 2)>>
        ELSE <<>>)
    \o (IF activity.repaid > 0
        THEN <<Row("Bnpl Account Payment", "ANALIPSI TAMIEUTIRIOU", NoDesc, MccNull,
                   0, activity.repaid, date + 3)>>
        ELSE <<>>)
    \o (IF activity.refund > 0
        THEN <<Row("Full Refund On Bnpl Account", "KATATHESEIS TAMIEUTIRIOU", NoDesc,
                   MccNull, activity.refund, 0, date + 4)>>
        ELSE <<>>)

\* no transaction; income only; income and spending; income and a new
\* plan of two sizes; income and an instalment; income and a refund; a new
\* plan without income; spending without income
WindowActivities ==
    {WindowActivity(0, 0, 0, 0, 0), WindowActivity(400, 0, 0, 0, 0),
     WindowActivity(400, 210, 0, 0, 0), WindowActivity(400, 0, 105, 0, 0),
     WindowActivity(400, 0, 104, 0, 0), WindowActivity(400, 0, 0, 105, 0),
     WindowActivity(400, 0, 0, 0, 105), WindowActivity(0, 0, 105, 0, 0),
     WindowActivity(0, 210, 0, 0, 0)}

\* the dates a two-window ledger is scored on
MomentumDays == {270, 300}

\* ------------------------------------------------------------------------
\* The state machine
\* ------------------------------------------------------------------------

Init ==
    /\ ledger \in Histories
    /\ customer \in Customers
    /\ now = 300
    /\ classified = <<>>
    /\ ruled = <<>>
    /\ call = None
    /\ called_at = None
    /\ result = None
    /\ previous = None
    /\ tables = ImportedTables
    /\ history = None

InitClassify ==
    /\ ledger = <<>>
    /\ customer = Customer(0, 0, None)
    /\ now = 300
    /\ classified = <<>>
    /\ ruled = <<>>
    /\ call = None
    /\ called_at = None
    /\ result = None
    /\ previous = None
    /\ tables = ImportedTables
    /\ history = None

\* a customer with monthly income, scored on one of several days
InitStability ==
    /\ ledger \in IncomeHistories
    /\ customer = Customer(300, 0, Some(35))
    /\ now \in CalcDays
    /\ classified = <<>>
    /\ ruled = <<>>
    /\ call = None
    /\ called_at = None
    /\ result = None
    /\ previous = None
    /\ tables = ImportedTables
    /\ history = None

\* a ledger with one activity in the prior window and one in the recent one
InitMomentum ==
    /\ now \in MomentumDays
    /\ \E prior \in WindowActivities : \E recent \in WindowActivities :
           ledger = WindowRows(prior, now - 135) \o WindowRows(recent, now - 45)
    /\ customer = Customer(300, 0, Some(35))
    /\ classified = <<>>
    /\ ruled = <<>>
    /\ call = None
    /\ called_at = None
    /\ result = None
    /\ previous = None
    /\ tables = ImportedTables
    /\ history = None

\* a customer whose results a caller edits
InitShared ==
    /\ ledger \in Histories
    /\ customer \in Customers
    /\ now = 300
    /\ classified = <<>>
    /\ ruled = <<>>
    /\ call = None
    /\ called_at = None
    /\ result = None
    /\ previous = None
    /\ tables = ImportedTables
    /\ history = None

\* a history of which the caller passes every column, or all but one
InitColumns ==
    /\ \E base \in Histories \ {<<>>} :
           \E column \in RequiredColumns \cup {"mcc_code"} :
               ledger \in {base, WithoutColumn(base, column)}
    /\ customer \in Customers
    /\ now = 300
    /\ classified = <<>>
    /\ ruled = <<>>
    /\ call = None
    /\ called_at = None
    /\ result = None
    /\ previous = None
    /\ tables = ImportedTables
    /\ history = None

\* a customer whose monthly history is built on one of several days
InitHistory ==
    /\ \E base \in Histories :
           ledger \in {base} \cup (IF base = <<>> THEN {}
                                   ELSE {WithoutColumn(base, "transaction_date"),
                                         WithoutColumn(base, "CreditAmountLC")})
    /\ customer \in {Customer(0, 0, None), Customer(0, 0, Some(35))}
    /\ now \in HistoryDays
    /\ classified = <<>>
    /\ ruled = <<>>
    /\ call = None
    /\ called_at = None
    /\ result = None
    /\ previous = None
    /\ tables = ImportedTables
    /\ history = None

\* a two-window ledger with debt costs in the recent window, for a funded
\* and for an overdrawn customer
InitSignals ==
    /\ now = 300
    /\ \E prior \in WindowActivities : \E recent \in WindowActivities :
           \E cost \in CostActivities :
               ledger = WindowRows(prior, now - 135) \o WindowRows(recent, now - 45)
                        \o CostRows(cost[1], cost[2], now - 20)
    /\ customer \in {Customer(300, 0, Some(35)), Customer(-800, 0, None)}
    /\ classified = <<>>
    /\ ruled = <<>>
    /\ call = None
    /\ called_at = None
    /\ result = None
    /\ previous = None
    /\ tables = ImportedTables
    /\ history = None

\* the rows of the ledger that were added to its history
Added(df) ==
    Cardinality({i \in 1..Len(df) : df[i] \in Catalogue \cup ClassifierRows})

\* df with row t put after the rows dated up to t's date
InsertByDate(df, t) ==
    LET before == SelectSeq(df, LAMBDA r : r.transaction_date <= t.transaction_date)
        after == SelectSeq(df, LAMBDA r : r.transaction_date > t.transaction_date)
    IN  before \o <<t>> \o after

\* the bank books a transaction into the ledger, which it keeps in date
\* order, before any analysis
AddTransaction(t) ==
    /\ Added(ledger) < MaxAdded
    /\ \A i \in 1..Len(ledger) : ledger[i] # t
    /\ classified = <<>>
    /\ call = None
    /\ ledger' = InsertByDate(ledger, t)
    /\ UNCHANGED <<now, classified, ruled, customer, call, called_at, result, previous, tables, history>>

\* a caller builds a DataFrame row by row, in any order
AppendRow(t) ==
    /\ Added(ledger) < MaxAdded
    /\ classified = <<>>
    /\ call = None
    /\ ledger' = Append(ledger, t)
    /\ UNCHANGED <<now, classified, ruled, customer, call, called_at, result, previous, tables, history>>

\* a day passes
Tick ==
    /\ now < 300 + MaxTicks
    /\ now' = now + 1
    /\ UNCHANGED <<ledger, classified, ruled, customer, call, called_at, result, previous, tables, history>>

\* classifier.classify(ledger)
ClassifyLedger ==
    /\ ruled' = RuleClassify(ledger)
    /\ classified' = Classify(ledger)
    /\ UNCHANGED <<ledger, now, customer, call, called_at, result, previous, tables, history>>

\* classifier.classify(classified): the returned DataFrame classified again
Reclassify ==
    /\ classified # <<>>
    /\ ruled' = RuleClassify(classified)
    /\ classified' = Classify(classified)
    /\ UNCHANGED <<ledger, now, customer, call, called_at, result, previous, tables, history>>

\* calculator.calculate(ledger, current_balance, savings_balance, age, date)
Calculate(calculation_date) ==
    /\ call' = Some([transactions |-> ledger,
                     current_balance |-> customer.current_balance,
                     savings_balance |-> customer.savings_balance,
                     age |-> customer.age,
                     calculation_date |-> calculation_date])
    /\ called_at' = Some(now)
    /\ previous' = IF call = None THEN None
                   ELSE Some([call |-> call[1], at |-> called_at[1],
                              result |-> result[1]])
    /\ ruled' = IF ClassifyRaises(ledger) THEN <<>>
                ELSE RuleClassify(RowsRead(ledger))
    /\ classified' = IF ClassifyRaises(ledger) THEN <<>>
                     ELSE Classify(RowsRead(ledger))
    /\ result' = Some(CalculateOutcome(tables, ledger, customer.current_balance,
                                       customer.savings_balance, customer.age,
                                       calculation_date, now))
    /\ UNCHANGED <<ledger, now, customer, tables, history>>

\* the caller assigns result.weights[component] = weight on the FRIResult
\* returned last; result.weights is the entry of the weight table that
\* _select_weights returned (lines 782-785), so the assignment lands there
MutateWeights(component, weight) ==
    /\ result # None
    /\ LET entry == WeightsEntry(result[1].data_mode, result[1].income_segment)
       IN  tables' = [tables EXCEPT ![entry[1]][entry[2]][component] = weight]
    /\ UNCHANGED <<ledger, now, classified, ruled, customer, call, called_at, result,
                   previous, history>>

\* calculator.calculate_monthly_history(ledger, balance_history,
\* savings_history, age, n_months); call and result keep the calculate
\* calls the caller makes itself
CalculateMonthlyHistory(balance_history, savings_history, n_months) ==
    /\ history' = Some([transactions |-> ledger,
                        balance_history |-> balance_history,
                        savings_history |-> savings_history,
                        age |-> customer.age, n_months |-> n_months, at |-> now,
                        returned |-> MonthlyHistory(tables, ledger, balance_history,
                                                    savings_history, customer.age,
                                                    n_months, now)])
    /\ UNCHANGED <<ledger, now, classified, ruled, customer, call, called_at, result,
                   previous, tables>>

\* scoring a ledger
Next ==
    \/ \E t \in Catalogue : AddTransaction(t)
    \/ \E d \in DateArgs : Calculate(d)

\* classifying a DataFrame
NextClassify ==
    \/ \E t \in ClassifierRows : AppendRow(t)
    \/ ClassifyLedger
    \/ Reclassify

\* scoring again as the clock advances
NextClock ==
    \/ Tick
    \/ \E d \in DateArgs : Calculate(d)

\* scoring an income history at the clock's date
NextStability == Calculate(None)

\* scoring a two-window ledger at the clock's date
NextMomentum == Calculate(None)

\* scoring, with a caller that edits the weights of the results it holds
NextShared ==
    \/ Calculate(Some(270))
    \/ \E component \in {"buffer", "stability", "momentum"} :
           \E weight \in EditedWeights : MutateWeights(component, weight)

\* scoring a frame that may lack a column
NextColumns == \E d \in DateArgs : Calculate(d)

\* building monthly histories
NextHistory ==
    \E balance_history \in BalanceHistories :
        \E savings_history \in SavingsHistories :
            \E n_months \in HistoryLengths :
                CalculateMonthlyHistory(balance_history, savings_history, n_months)

\* scoring a ledger for its coaching signals
NextSignals == Calculate(None)

Spec == Init /\ [][Next]_vars

SpecSignals == InitSignals /\ [][NextSignals]_vars

SpecHistory == InitHistory /\ [][NextHistory]_vars

SpecColumns == InitColumns /\ [][NextColumns]_vars

SpecShared == InitShared /\ [][NextShared]_vars

SpecStability == InitStability /\ [][NextStability]_vars

SpecMomentum == InitMomentum /\ [][NextMomentum]_vars

SpecClassify == InitClassify /\ [][NextClassify]_vars

SpecClock == Init /\ [][NextClock]_vars

\* ------------------------------------------------------------------------
\* Properties
\* ------------------------------------------------------------------------

\* the (role, essential, needs_enrichment) triple a classified row carries
Triple(row) ==
    Mapping(row.fri_role, row.fri_essential, row.fri_needs_enrichment)

InPrimaryMap(row) ==
    <<row.TransactionType, row.TransactionSubSubType>> \in DOMAIN FRI_CATEGORY_MAP

InTypeFallback(row) == row.TransactionType \in DOMAIN TRANSACTION_TYPE_FALLBACK

InDescFallback(row) ==
    row.TransactionDescription \in DOMAIN TRANSACTION_DESC_FALLBACK

\* a transaction no rule matches
Unmatched(row) ==
    ~InPrimaryMap(row) /\ ~InTypeFallback(row) /\ ~InDescFallback(row)

\* C1: calculate returns total_score, buffer, stability and momentum within
\* [0, 100] and confidence within [0, 1], whatever the transactions, the
\* balances (negative ones too), the age and the calculation date.
C1_ScoreBounds ==
    result # None =>
        /\ result[1].total_score \in 0..10000
        /\ result[1].buffer \in 0..10000
        /\ result[1].stability \in 0..10000
        /\ result[1].momentum \in 0..10000
        /\ result[1].confidence \in 0..1000

\* an overdrawn customer with essential spending in the window: the ratio
\* of liquid assets to spending is negative and the buffer score is 0
C1_Witness ==
    /\ result # None
    /\ result[1].buffer_detail.liquid_assets < 0
    /\ result[1].buffer_detail.total_essential_3m_x20 > 0
    /\ result[1].buffer = 0
    /\ result[1].momentum \notin {0, 5000, 10000}

C3_ClassificationComplete ==
    /\ Cardinality(Roles) = 13
    /\ classified # <<>> =>
        /\ Len(classified) = Len(ledger)
        /\ \A i \in 1..Len(classified) :
            /\ classified[i].fri_role \in Roles
            /\ Unmatched(ledger[i]) => classified[i].fri_role = "SYSTEM_OPERATION"

\* a classified DataFrame with an unmatched transaction next to a matched one
C3_Witness ==
    /\ Len(classified) >= 2
    /\ \E i \in 1..Len(classified) : Unmatched(ledger[i])
    /\ \E i \in 1..Len(classified) : classified[i].fri_role # "SYSTEM_OPERATION"

C5_EnrichmentMonotone ==
    \A i \in 1..Len(classified) :
        LET before == ruled[i]
            after == classified[i]
            cell == ledger[i].mcc_code
            code == Strip(PyStr(cell))
            essential == InCodes(code, ESSENTIAL_MCC_CODES)
            discretionary == InCodes(code, DISCRETIONARY_MCC_CODES)
            eligible == before.fri_role = "BUFFER_SPENDING_UNCLASSIFIED"
                        /\ cell.kind # "nan"
        IN  /\ after.fri_role # before.fri_role =>
                /\ eligible
                /\ \/ essential /\ Triple(after) = Mapping("BUFFER_ESSENTIAL", TRUE, FALSE)
                   \/ discretionary
                      /\ Triple(after) = Mapping("BUFFER_DISCRETIONARY", FALSE, FALSE)
            /\ (eligible /\ essential) => after.fri_role = "BUFFER_ESSENTIAL"
            /\ (eligible /\ ~essential /\ discretionary) =>
                   after.fri_role = "BUFFER_DISCRETIONARY"
            /\ (~essential /\ ~discretionary) => Triple(after) = Triple(before)
            /\ after.fri_role = "BUFFER_SPENDING_UNCLASSIFIED" =>
                   before.fri_role = "BUFFER_SPENDING_UNCLASSIFIED"
            /\ before.fri_role # "BUFFER_SPENDING_UNCLASSIFIED" =>
                   Triple(after) = Triple(before)

\* the pass has reassigned one transaction, and has left alone one of
\* another role that carries a code of one of the two sets
C5_Witness ==
    /\ \E i \in 1..Len(classified) : classified[i].fri_role # ruled[i].fri_role
    /\ \E i \in 1..Len(classified) :
        /\ ruled[i].fri_role # "BUFFER_SPENDING_UNCLASSIFIED"
        /\ InCodes(Strip(PyStr(ledger[i].mcc_code)),
                   ESSENTIAL_MCC_CODES \cup DISCRETIONARY_MCC_CODES)
        /\ classified[i] = ruled[i]

\* C6: unmapped transactions (those that fall through to the default
\* SYSTEM_OPERATION role) added to a history change neither the total score
\* nor the data_mode nor the weights that calculate returns.
C6_UnmappedNeutral ==
    result # None =>
        LET base == CalculateResult(SelectSeq(call[1].transactions,
                                              LAMBDA t : ~Unmatched(t)),
                                    call[1].current_balance, call[1].savings_balance,
                                    call[1].age, Some(result[1].calculation_date), now)
        IN  /\ result[1].total_score = base.total_score
            /\ result[1].data_mode = base.data_mode
            /\ result[1].weights = base.weights

C8_IdempotentOrderIndependent ==
    classified # <<>> =>
        /\ Classify(classified) = classified
        /\ \A p \in Permutations(1..Len(ledger)) :
            LET permuted == [i \in 1..Len(ledger) |-> ledger[p[i]]]
            IN  \A i \in 1..Len(ledger) : Classify(permuted)[i] = classified[p[i]]

\* two transactions with different mcc cells, one of them enriched
C8_Witness ==
    /\ Len(classified) >= 2
    /\ classified[1].mcc_code # classified[2].mcc_code
    /\ classified[1].fri_role # classified[2].fri_role
    /\ \E i \in 1..Len(classified) : classified[i].fri_role # ruled[i].fri_role

\* C9: with no essential spending in the 90-day window (an average monthly
\* essential of zero or less) the buffer score is exactly 100 and
\* buffer_months is None, for every value of liquid assets.
C9_NoSpendingBuffer ==
    (result # None /\ result[1].buffer_detail.total_essential_3m_x20 <= 0) =>
        /\ result[1].buffer = 10000
        /\ result[1].buffer_detail.buffer_months = None

\* no essential spending and negative liquid assets
C9_Witness ==
    /\ result # None
    /\ result[1].buffer_detail.total_essential_3m_x20 = 0
    /\ result[1].buffer_detail.liquid_assets < 0
    /\ result[1].buffer = 10000
    /\ Len(classified) > 0

\* C10: layer (b), mcc_enriched_essential_3m, is the absolute sum of the
\* outflows of the transactions of the 90-day window that the enrichment
\* pass reassigned to BUFFER_ESSENTIAL; a transaction the category map
\* assigned to BUFFER_ESSENTIAL directly contributes nothing to it.
C10_LayerBOnlyReassigned ==
    result # None =>
        LET reassigned ==
                {i \in 1..Len(classified) :
                    /\ ruled[i].fri_role = "BUFFER_SPENDING_UNCLASSIFIED"
                    /\ classified[i].fri_role = "BUFFER_ESSENTIAL"}
            rows == [i \in 1..Len(classified) |->
                        IF i \in reassigned THEN classified[i]
                        ELSE [classified[i] EXCEPT !.fri_net_amount = 0]]
            recent == RecentWindow(rows, result[1].calculation_date)
        IN  result[1].buffer_detail.mcc_enriched_essential_3m =
                Abs(SumAll(SelectSeq(recent, LAMBDA r : r.fri_net_amount < 0)))

\* the rows of a classified DataFrame dated within the 180 days up to
\* calc_date
InWindows(df, calc_date) ==
    SelectSeq(df, LAMBDA r : r.transaction_date >= calc_date - 180
                             /\ r.transaction_date <= calc_date)

\* C11: only transactions inside the trailing windows count: the buffer,
\* stability and momentum scores are those of the transactions dated within
\* the 180 days up to calc_date; one dated after calc_date, or more than 180
\* days before it, changes none of the three.
C11_OnlyWindowsCount ==
    result # None =>
        LET df == InWindows(Classify(call[1].transactions),
                            result[1].calculation_date)
            calc_date == result[1].calculation_date
        IN  /\ result[1].buffer =
                   CalculateBuffer(df, call[1].current_balance,
                                   call[1].savings_balance, call[1].age,
                                   calc_date).score
            /\ result[1].stability = CalculateStability(df, calc_date).score
            /\ result[1].momentum = CalculateMomentum(df, calc_date).score

\* the positive income rows of a classified DataFrame from calc_date - 180 on
PositiveIncome(df, calc_date) ==
    SelectSeq(df, LAMBDA r : r.fri_role \in {"STABILITY_INCOME", "STABILITY_BENEFIT"}
                             /\ r.fri_net_amount > 0
                             /\ r.transaction_date >= calc_date - 180)

\* the income of calendar month m
IncomeOfMonth(income, m) ==
    SumAll(SelectSeq(income, LAMBDA r : MonthOf(r.transaction_date) = m))

\* C12: whenever an income transaction lies in the 180-day window, the
\* monthly income series of _calculate_stability has exactly one entry for
\* every calendar month from the month of calc_date - 180 days to the month
\* of calc_date, in chronological order; a month without income has an
\* explicit 0 entry, and that 0 is included in the mean, the standard
\* deviation (through cv) and months_analyzed.
C12_ZeroFilledSeries ==
    result # None =>
        LET calc_date == result[1].calculation_date
            detail == result[1].stability_detail
            income == PositiveIncome(classified, calc_date)
            first == MonthOf(calc_date - 180)
            n == MonthOf(calc_date) - first + 1
            series == [i \in 1..n |-> IncomeOfMonth(income, first + i - 1)]
        IN  (\E k \in 1..Len(income) : income[k].transaction_date <= calc_date) =>
                /\ detail.status = "computed"
                /\ detail.monthly_income = series
                /\ detail.months_analyzed = Some(n)
                /\ detail.mean_x100 = FixDiv(SeqSum(series), n, 2)
                /\ detail.cv = Some(CoefficientOfVariation(series))

\* a window of seven calendar months with a month without income between
\* two months with income
C12_Witness ==
    /\ result # None
    /\ result[1].stability_detail.status = "computed"
    /\ Len(result[1].stability_detail.monthly_income) = 7
    /\ \E i, j, k \in 1..7 :
        /\ i < j /\ j < k
        /\ result[1].stability_detail.monthly_income[i] > 0
        /\ result[1].stability_detail.monthly_income[j] = 0
        /\ result[1].stability_detail.monthly_income[k] > 0
    /\ result[1].stability \in 1..9999

\* the calendar months in which a DataFrame has rows
MonthsOf(df) == {MonthOf(df[i].transaction_date) : i \in 1..Len(df)}

\* C13: a customer whose income is the same positive amount in each of 6
\* consecutive months, one income transaction per month, all dated within
\* the 180 days up to calc_date, has stability = 100 with cv = 0, for every
\* calc_date and every day of the month on which the income is paid.
C13_SteadyIncomeStable ==
    result # None =>
        LET calc_date == result[1].calculation_date
            months == MonthsOf(classified)
        IN  (/\ Len(classified) = 6
             /\ Cardinality(months) = 6
             /\ \E m \in months : months = m..(m + 5)
             /\ \A i \in 1..6 :
                 /\ classified[i].fri_role = "STABILITY_INCOME"
                 /\ classified[i].fri_net_amount = classified[1].fri_net_amount
                 /\ classified[i].fri_net_amount > 0
                 /\ classified[i].transaction_date >= calc_date - 180
                 /\ classified[i].transaction_date <= calc_date) =>
                /\ result[1].stability = 10000
                /\ result[1].stability_detail.cv = Some(0)

\* C14: _calculate_stability returns its fallbacks: 50 with status
\* no_income_detected when no positive income transaction lies in the
\* window; 50 with status insufficient_history when fewer than 2 months of
\* data exist (income in a single calendar month of a history shorter than
\* 2 months); 0 with status zero_mean_income when the mean monthly income is
\* 0 or less.
C14_StabilityFallbacks ==
    result # None =>
        LET calc_date == result[1].calculation_date
            detail == result[1].stability_detail
            income == InWindows(PositiveIncome(classified, calc_date), calc_date)
            short == \A i \in 1..Len(classified) :
                         /\ classified[i].transaction_date > calc_date - 60
                         /\ classified[i].transaction_date <= calc_date
        IN  /\ income = <<>> =>
                (result[1].stability = 5000 /\ detail.status = "no_income_detected")
            /\ (income # <<>> /\ short /\ Cardinality(MonthsOf(income)) = 1) =>
                (result[1].stability = 5000 /\ detail.status = "insufficient_history")
            /\ detail.status = "zero_mean_income" => result[1].stability = 0

\* longest monthly series of the single-month check
MaxSeriesLen == 8

SingleMonthAmounts == {1, 250, 800, 2000}

\* a series of n months whose only income is amount, in month k
SingleMonthSeries(n, k, amount) == [i \in 1..n |-> IF i = k THEN amount ELSE 0]

\* C15: when exactly one month of the window has positive income and every
\* other month has none, the sample standard deviation is at least the mean,
\* the coefficient of variation is capped at 1 and stability is exactly 0,
\* for every positive amount and every window length of 2 or more.
C15_SingleMonthZero ==
    /\ \A n \in 2..MaxSeriesLen : \A k \in 1..n : \A amount \in SingleMonthAmounts :
           LET values == SingleMonthSeries(n, k, amount)
               s == SeqSum(values)
           IN  /\ n * (n * SeqSumSq(values) - s * s) >= (n - 1) * s * s
               /\ CoefficientOfVariation(values) = 10000
    /\ (result # None /\ result[1].stability_detail.status = "computed"
           /\ result[1].stability_detail.months_with_income = 1) =>
           /\ result[1].stability_detail.cv = Some(10000)
           /\ result[1].stability = 0

C15_Witness ==
    /\ result # None
    /\ result[1].stability_detail.status = "computed"
    /\ result[1].stability_detail.months_with_income = 1
    /\ result[1].stability_detail.months_analyzed = Some(7)
    /\ result[1].stability = 0

\* the momentum detail of the last result
MomentumDetail == result[1].momentum_detail

\* both trends of the last result are 'stable'
TrendsStable ==
    MomentumDetail.nfr_trend = "stable" /\ MomentumDetail.debt_trend = "stable"

\* C16 as stated: momentum lies within [0, 100], and whenever the combined
\* signal is 0 it is exactly 50 with interpretation 'neutral' and with
\* nfr_trend and debt_trend both 'stable'.
C16_NeutralAtZero ==
    result # None =>
        /\ result[1].momentum >= 0 /\ result[1].momentum <= 10000
        /\ MomentumDetail.combined_raw = 0 =>
               /\ result[1].momentum = 5000
               /\ MomentumDetail.momentum_interpretation = "neutral"
               /\ TrendsStable

\* C16, amended: momentum lies within [0, 100]; whenever the combined signal
\* is 0 it is exactly 50 with interpretation 'neutral'; nfr_trend and
\* debt_trend are both 'stable' when neither window holds a transaction and
\* when both windows have the same NFR and the same net debt change.
C16_NeutralAtZeroStableWhenEqual ==
    result # None =>
        LET calc_date == result[1].calculation_date
            recent == RecentWindow(classified, calc_date)
            prior == PriorWindow(classified, calc_date)
        IN  /\ result[1].momentum >= 0 /\ result[1].momentum <= 10000
            /\ MomentumDetail.combined_raw = 0 =>
                   /\ result[1].momentum = 5000
                   /\ MomentumDetail.momentum_interpretation = "neutral"
            /\ (recent = <<>> /\ prior = <<>>) =>
                   (MomentumDetail.combined_raw = 0 /\ TrendsStable)
            /\ (/\ MomentumDetail.nfr_recent = MomentumDetail.nfr_prior
                /\ MomentumDetail.debt_change_recent = MomentumDetail.debt_change_prior) =>
                   (MomentumDetail.combined_raw = 0 /\ TrendsStable)

\* both windows hold transactions, with the same NFR and the same net debt
\* change, and momentum is 50
C16_Witness ==
    /\ result # None
    /\ RecentWindow(classified, result[1].calculation_date) # <<>>
    /\ PriorWindow(classified, result[1].calculation_date) # <<>>
    /\ MomentumDetail.nfr_recent = MomentumDetail.nfr_prior
    /\ MomentumDetail.nfr_recent > 0
    /\ MomentumDetail.debt_change_recent = MomentumDetail.debt_change_prior
    /\ MomentumDetail.debt_change_recent # 0
    /\ result[1].momentum = 5000

\* the four spending ratios are all None
AllNone(ratios) ==
    /\ ratios.essential_pct = None /\ ratios.discretionary_pct = None
    /\ ratios.debt_service_pct = None /\ ratios.savings_rate_pct = None

\* C17: momentum never divides by a zero or negative denominator: the NFR
\* of a window whose income is 0 or less is 0 and its spending ratios are
\* all None; the avg_income normalizer of delta_d is strictly positive (the
\* mean of the two windows' income, else the larger of the two, else 1.0);
\* the score is a finite number of [0, 100].
C17_NoDivisionByZero ==
    result # None =>
        LET income_recent == MomentumDetail.nfr_recent_components.income
            income_prior == MomentumDetail.nfr_prior_components.income
            larger == Max(income_recent, income_prior)
        IN  /\ income_recent <= 0 =>
                /\ MomentumDetail.nfr_recent = 0
                /\ AllNone(MomentumDetail.spending_ratios_recent)
            /\ income_prior <= 0 =>
                /\ MomentumDetail.nfr_prior = 0
                /\ AllNone(MomentumDetail.spending_ratios_prior)
            /\ MomentumDetail.avg_income_normalizer_x2 > 0
            /\ MomentumDetail.avg_income_normalizer_x2 =
                   IF income_recent + income_prior > 0 THEN income_recent + income_prior
                   ELSE IF larger > 0 THEN 2 * larger ELSE 2
            /\ result[1].momentum \in 0..10000

\* neither window has income, the recent one has spending and the prior one
\* a new instalment plan: the normalizer is 1.0
C17_Witness ==
    /\ result # None
    /\ MomentumDetail.nfr_recent_components.income = 0
    /\ MomentumDetail.nfr_prior_components.income = 0
    /\ MomentumDetail.nfr_recent_components.essential_x20 > 0
    /\ MomentumDetail.debt_change_prior > 0
    /\ MomentumDetail.avg_income_normalizer_x2 = 2
    /\ MomentumDetail.nfr_recent = 0

\* inflows tagged MOMENTUM_DEBT_NEW minus the outflows and the inflows
\* tagged MOMENTUM_DEBT_REPAY, over the rows of a window
DebtChangeOf(window) ==
    LET Amounts(role, sign) ==
            SelectSeq(window, LAMBDA r : r.fri_role = role
                                         /\ r.fri_net_amount * sign > 0)
    IN  SumAll(Amounts("MOMENTUM_DEBT_NEW", 1))
        - (Abs(SumAll(Amounts("MOMENTUM_DEBT_REPAY", -1)))
           + SumAll(Amounts("MOMENTUM_DEBT_REPAY", 1)))

\* C18: the net debt change of a window is the inflows tagged
\* MOMENTUM_DEBT_NEW minus the sum of the absolute outflows and of the
\* inflows (refund credits) tagged MOMENTUM_DEBT_REPAY, so a refund lowers
\* it exactly as a repayment of the same amount does; delta_d is strictly
\* positive when the recent window's net debt change is lower than the
\* prior window's and strictly negative when it is higher.
C18_NetDebtChange ==
    /\ \A activity \in WindowActivities :
           LET repaid == [activity EXCEPT !.repaid = 105, !.refund = 0]
               refunded == [activity EXCEPT !.repaid = 0, !.refund = 105]
           IN  CalcNetDebtChange(Classify(WindowRows(repaid, 200))).change
                   = CalcNetDebtChange(Classify(WindowRows(refunded, 200))).change
    /\ result # None =>
           LET calc_date == result[1].calculation_date
           IN  /\ MomentumDetail.debt_change_recent
                      = DebtChangeOf(RecentWindow(classified, calc_date))
               /\ MomentumDetail.debt_change_prior
                      = DebtChangeOf(PriorWindow(classified, calc_date))
               /\ MomentumDetail.debt_change_recent < MomentumDetail.debt_change_prior
                      => MomentumDetail.delta_d_normalized > 0
               /\ MomentumDetail.debt_change_recent > MomentumDetail.debt_change_prior
                      => MomentumDetail.delta_d_normalized < 0

\* a refund credit in the recent window makes its net debt change lower than
\* the prior window's, in which a plan was opened
C18_Witness ==
    /\ result # None
    /\ MomentumDetail.debt_parts_recent.refund_inflows > 0
    /\ MomentumDetail.debt_change_recent < 0
    /\ MomentumDetail.debt_change_prior > 0
    /\ MomentumDetail.delta_d_normalized > 0

\* the weights the tables of lines 57-68 give, in hundredths
FixedModeWeights(data_mode) ==
    IF data_mode = "new_user" THEN Weights(70, 15, 15)
    ELSE IF data_mode = "short_history" THEN Weights(60, 15, 25)
    ELSE Weights(55, 45, 0)

SegmentWeights(stability) ==
    IF stability >= 8500 THEN Weights(45, 30, 25)
    ELSE IF stability >= 6000 THEN Weights(50, 20, 30)
    ELSE Weights(55, 15, 30)

\* C19: the weights depend on the income segment only in full_data mode:
\* for new_user, short_history and no_debt they are that mode's fixed table
\* for every stability score, and for full_data they are the table of the
\* segment derived from stability (>= 85 STABLE_SALARIED, >= 60
\* VARIABLE_INCOME, else HIGH_VOLATILITY).
C19_WeightSelection ==
    /\ \A stability \in {0, 5999, 6000, 8499, 8500, 10000} :
           /\ \A data_mode \in {"new_user", "short_history", "no_debt"} :
                  SelectWeights(data_mode, DetermineIncomeSegment(stability))
                      = FixedModeWeights(data_mode)
           /\ SelectWeights("full_data", DetermineIncomeSegment(stability))
                  = SegmentWeights(stability)
    /\ result # None =>
           /\ result[1].data_mode \in {"new_user", "short_history", "no_debt"} =>
                  result[1].weights = FixedModeWeights(result[1].data_mode)
           /\ result[1].data_mode = "full_data" =>
                  result[1].weights = SegmentWeights(result[1].stability)
           /\ result[1].income_segment =
                  (IF result[1].stability >= 8500 THEN "STABLE_SALARIED"
                   ELSE IF result[1].stability >= 6000 THEN "VARIABLE_INCOME"
                   ELSE "HIGH_VOLATILITY")

\* a full_data customer of a segment other than STABLE_SALARIED
C19_Witness ==
    /\ result # None
    /\ result[1].data_mode = "full_data"
    /\ result[1].income_segment # "STABLE_SALARIED"
    /\ result[1].weights # Weights(45, 30, 25)

\* C20: data_mode is new_user when the history (earliest transaction to
\* calc_date) is shorter than 2 months or there are no transactions,
\* short_history when it is 2 to 5 months, no_debt when it is 6 months or
\* more and no transaction of the history has a debt role
\* (MOMENTUM_DEBT_NEW, MOMENTUM_DEBT_REPAY or MOMENTUM_DEBT_COST), and
\* full_data in every other case.
C20_DataMode ==
    result # None =>
        LET calc_date == result[1].calculation_date
            months == IF classified = <<>> THEN 0
                      ELSE MonthsAvailable(classified, calc_date)
            debt == \E i \in 1..Len(classified) : classified[i].fri_role
                        \in {"MOMENTUM_DEBT_NEW", "MOMENTUM_DEBT_REPAY",
                             "MOMENTUM_DEBT_COST"}
        IN  result[1].data_mode =
                IF months < 2 THEN "new_user"
                ELSE IF months < 6 THEN "short_history"
                ELSE IF ~debt THEN "no_debt"
                ELSE "full_data"

\* C21: a result shares no mutable state with the configuration tables or
\* with another result: after a caller has edited the weights mapping of a
\* returned FRI result, a calculate call with the same inputs still returns
\* the weights of the original tables and the same scores.
C21_NoSharedState ==
    /\ result # None =>
           /\ result[1].weights
                  = SelectWeights(result[1].data_mode, result[1].income_segment)
           /\ result[1].total_score
                  = TotalScore(SelectWeights(result[1].data_mode,
                                             result[1].income_segment),
                               result[1].buffer, result[1].stability,
                               result[1].momentum)
    /\ (previous # None /\ previous[1].call = call[1]) =>
           previous[1].result = result[1]

\* the last call raised an error instead of returning an FRIResult
Raised == result # None /\ "raised" \in DOMAIN result[1]

\* C22: when the dataset lacks a required column (transaction_date,
\* TransactionType, TransactionSubSubType, CreditAmountLC, DebitAmountLC),
\* calculate fails with an error raised during classification, before any
\* component is computed, and never returns an FRI result.
C22_MissingColumnFails ==
    (call # None /\ RequiredColumns \ ColumnsOf(call[1].transactions) # {}) =>
        /\ Raised
        /\ result[1].method = "classify"

\* C23: calculate_monthly_history returns its entries oldest first with at
\* most one entry per calendar month: each of the last n_months calendar
\* months that has a transaction on or before its calculation date has
\* exactly one entry, no month appears twice and none of them is skipped,
\* whatever the current date.
C23_OneEntryPerMonth ==
    (/\ history # None
     /\ "entries" \in DOMAIN history[1].returned
     /\ AllColumns \subseteq ColumnsOf(history[1].transactions)
     /\ \A k \in 1..Len(history[1].balance_history) :
            history[1].balance_history[k].balance # NullBalance) =>
        LET months == [k \in 1..Len(history[1].returned.entries) |->
                          history[1].returned.entries[k].month]
            this_month == MonthOf(history[1].at)
        IN  /\ \A k \in 1..(Len(months) - 1) : months[k] < months[k + 1]
            /\ \A m \in (this_month - history[1].n_months + 1)..this_month :
                   (\E i \in 1..Len(history[1].transactions) :
                        history[1].transactions[i].transaction_date
                            < MonthStarts[m]) =>
                       Cardinality({k \in 1..Len(months) : months[k] = m}) = 1

\* the turns of the last monthly-history call whose calculate succeeded
SucceededTurns ==
    {i \in 0..(history[1].n_months - 1) :
        /\ \E k \in 1..Len(history[1].transactions) :
               history[1].transactions[k].transaction_date
                   <= history[1].at - 30 * i
        /\ ~MonthFails(tables, history[1].transactions, history[1].balance_history,
                       history[1].savings_history, history[1].age,
                       history[1].at, i)}

\* C24: a failure of calculate for one month never aborts
\* calculate_monthly_history: the failing month is left out, every other
\* month is still computed, the list holds exactly the months whose
\* calculation succeeded, in their original order, and the call does not
\* raise because of a failing month.
C24_FailingMonthSkipped ==
    (history # None
     /\ "transaction_date" \in ColumnsOf(history[1].transactions)) =>
        /\ "entries" \in DOMAIN history[1].returned
        /\ Len(history[1].returned.entries) = Cardinality(SucceededTurns)
        /\ \A i \in SucceededTurns :
               LET position == Cardinality({j \in SucceededTurns : j >= i})
                   fri == MonthOutcome(tables, history[1].transactions,
                                       history[1].balance_history,
                                       history[1].savings_history, history[1].age,
                                       history[1].at, i)
               IN  /\ history[1].returned.entries[position].month
                          = MonthOf(history[1].at - 30 * i)
                   /\ history[1].returned.entries[position].total = fri.total_score
                   /\ history[1].returned.entries[position].data_mode = fri.data_mode

\* a month in the middle failed (its balance is None); months before it and
\* after it are in the list
C24_Witness ==
    /\ history # None
    /\ "entries" \in DOMAIN history[1].returned
    /\ \E i \in {t \in 0..(history[1].n_months - 1) :
                   MonthFails(tables, history[1].transactions,
                              history[1].balance_history,
                              history[1].savings_history, history[1].age,
                              history[1].at, t)} :
           /\ \E j \in SucceededTurns : j > i
           /\ \E j \in SucceededTurns : j < i
    /\ Len(history[1].returned.entries) = Cardinality(SucceededTurns)

\* the signals of the last result that carry the name signal
SignalsNamed(signal) ==
    SelectSeq(result[1].coaching_signals, LAMBDA s : s.signal = signal)

Emitted(signal) == SignalsNamed(signal) # <<>>

\* C25: the CRITICAL fri_below_threshold signal is emitted exactly when
\* 0.45 buffer + 0.30 stability + 0.25 momentum < 30, with these fixed
\* weights, whatever data_mode, income segment and adaptive weights gave the
\* total score.
C25_CriticalThreshold ==
    result # None =>
        /\ Emitted("fri_below_threshold")
               <=> (45 * result[1].buffer + 30 * result[1].stability
                    + 25 * result[1].momentum < 300000)
        /\ \A k \in 1..Len(result[1].coaching_signals) :
               result[1].coaching_signals[k].signal = "fri_below_threshold" =>
                   /\ result[1].coaching_signals[k].type = "CRITICAL"
                   /\ result[1].coaching_signals[k].severity = "CRITICAL"
        /\ Len(SignalsNamed("fri_below_threshold")) <= 1

\* the fixed-weight sum is below 30 although the total score, computed with
\* the weights of the data mode, is 30 or more
C25_Witness ==
    /\ result # None
    /\ Emitted("fri_below_threshold")
    /\ result[1].total_score >= 3000
    /\ result[1].weights # Weights(45, 30, 25)

\* C26: whenever the customer was charged debt costs (MOMENTUM_DEBT_COST
\* outflows of more than 0 in total) in the recent 90-day window, the list
\* holds a DISTRESS debt_cost_burden signal, HIGH when the cost exceeds 100
\* euros or 5% of the income normalizer and MEDIUM otherwise, and the amount
\* it reports agrees with the debt_cost component of the recent window's NFR
\* breakdown.
C26_DebtCostBurden ==
    result # None =>
        LET charged ==
                Abs(SumAll(SelectSeq(
                        RecentWindow(classified, result[1].calculation_date),
                        LAMBDA r : r.fri_role = "MOMENTUM_DEBT_COST"
                                   /\ r.fri_net_amount < 0)))
        IN  charged > 0 =>
                /\ Emitted("debt_cost_burden")
                /\ SignalsNamed("debt_cost_burden")[1].type = "DISTRESS"
                /\ SignalsNamed("debt_cost_burden")[1].severity =
                       IF charged > 100
                          \/ 40 * charged > MomentumDetail.avg_income_normalizer_x2
                       THEN "HIGH" ELSE "MEDIUM"
                /\ MomentumDetail.debt_costs_3m
                       = MomentumDetail.nfr_recent_components.debt_cost

\* C27: the trend signals follow the trend labels exactly: WARNING
\* declining_nfr_trajectory iff delta_nfr < -0.02, POSITIVE
\* improving_savings_behavior iff delta_nfr > 0.02, POSITIVE
\* active_debt_reduction iff delta_d > 0.02 and WARNING increasing_debt iff
\* delta_d < -0.02; one result never holds both the improving and the
\* declining NFR signal, nor both the reducing and the increasing debt
\* signal, nor both strong_momentum and declining_trajectory.
C27_TrendSignals ==
    result # None =>
        /\ Emitted("declining_nfr_trajectory") <=> MomentumDetail.delta_nfr < -200
        /\ Emitted("improving_savings_behavior") <=> MomentumDetail.delta_nfr > 200
        /\ Emitted("active_debt_reduction")
               <=> MomentumDetail.delta_d_normalized > 200
        /\ Emitted("increasing_debt") <=> MomentumDetail.delta_d_normalized < -200
        /\ \A s \in {"declining_nfr_trajectory", "increasing_debt"} :
               \A k \in 1..Len(SignalsNamed(s)) :
                   SignalsNamed(s)[k].type = "WARNING"
        /\ \A s \in {"improving_savings_behavior", "active_debt_reduction"} :
               \A k \in 1..Len(SignalsNamed(s)) :
                   SignalsNamed(s)[k].type = "POSITIVE"
        /\ ~(Emitted("declining_nfr_trajectory")
             /\ Emitted("improving_savings_behavior"))
        /\ ~(Emitted("active_debt_reduction") /\ Emitted("increasing_debt"))
        /\ ~(Emitted("strong_momentum") /\ Emitted("declining_trajectory"))

\* a result whose savings decline, with a momentum low enough for the
\* declining_trajectory warning as well
C27_Witness ==
    /\ result # None
    /\ Emitted("declining_nfr_trajectory")
    /\ Emitted("declining_trajectory")
    /\ MomentumDetail.delta_nfr < -200

\* C28: no outflow is counted twice in Buffer's essential spending: each
\* transaction of the 90-day window contributes to at most one of the three
\* layers, so the total essential spending never exceeds the absolute sum of
\* all the outflows of the window.
C28_NoDoubleCounting ==
    result # None =>
        /\ \A i \in 1..Len(classified) :
               ~(/\ classified[i].fri_role \in ESSENTIAL_SPENDING_ROLES
                 /\ classified[i].fri_role = "BUFFER_ESSENTIAL"
                 /\ ~classified[i].fri_needs_enrichment
                 /\ classified[i].fri_net_amount < 0
                 /\ classified[i].transaction_date
                        >= result[1].calculation_date - 90)
        /\ result[1].buffer_detail.total_essential_3m_x20
               <= 20 * Abs(SumAll(SelectSeq(
                               RecentWindow(classified, result[1].calculation_date),
                               LAMBDA r : r.fri_net_amount < 0)))

\* the absolute sum of the outflows of the given roles among the rows
OutflowsOf(rows, roles) ==
    Abs(SumAll(SelectSeq(rows, LAMBDA r : r.fri_role \in roles
                                          /\ r.fri_net_amount < 0)))

\* C29: in the NFR of a window every outflow is counted in exactly one
\* bucket: BUFFER_ESSENTIAL, FEE_BANK and TAX_LEVY outflows only in
\* essential, BUFFER_DISCRETIONARY only in discretionary,
\* MOMENTUM_DEBT_REPAY and MOMENTUM_DEBT_COST only in debt_service, and
\* BUFFER_SPENDING_UNCLASSIFIED split between essential and discretionary so
\* that the two estimated parts add up to the unclassified total; hence
\* essential + discretionary + debt_service is the absolute sum of the
\* outflows of all these roles.
C29_OneBucketPerOutflow ==
    result # None =>
        \A window \in {"recent", "prior"} :
            LET rows == IF window = "recent"
                        THEN RecentWindow(classified, result[1].calculation_date)
                        ELSE PriorWindow(classified, result[1].calculation_date)
                parts == IF window = "recent"
                         THEN MomentumDetail.nfr_recent_components
                         ELSE MomentumDetail.nfr_prior_components
            IN
            /\ parts.essential_x20
                   = 20 * OutflowsOf(rows, {"BUFFER_ESSENTIAL", "FEE_BANK", "TAX_LEVY"})
                     + parts.unclassified_essential_est_x20
            /\ parts.discretionary_x20
                   = 20 * OutflowsOf(rows, {"BUFFER_DISCRETIONARY"})
                     + parts.unclassified_discretionary_est_x20
            /\ parts.debt_service
                   = OutflowsOf(rows, {"MOMENTUM_DEBT_REPAY", "MOMENTUM_DEBT_COST"})
            /\ parts.unclassified_essential_est_x20
                   + parts.unclassified_discretionary_est_x20
                   = 20 * OutflowsOf(rows, {"BUFFER_SPENDING_UNCLASSIFIED"})
            /\ parts.unclassified_essential_est_x20 >= 0
            /\ parts.unclassified_discretionary_est_x20 >= 0
            /\ parts.essential_x20 + parts.discretionary_x20 + 20 * parts.debt_service
                   = 20 * OutflowsOf(rows, {"BUFFER_ESSENTIAL", "FEE_BANK", "TAX_LEVY",
                                            "BUFFER_DISCRETIONARY", "MOMENTUM_DEBT_REPAY",
                                            "MOMENTUM_DEBT_COST",
                                            "BUFFER_SPENDING_UNCLASSIFIED"})

\* a scored window that holds an essential outflow, an instalment, a debt
\* cost and unclassified spending at once
C29_Witness ==
    /\ result # None
    /\ LET rows == RecentWindow(classified, result[1].calculation_date)
       IN  /\ OutflowsOf(rows, {"BUFFER_ESSENTIAL", "FEE_BANK", "TAX_LEVY"}) > 0
           /\ OutflowsOf(rows, {"MOMENTUM_DEBT_REPAY"}) > 0
           /\ OutflowsOf(rows, {"MOMENTUM_DEBT_COST"}) > 0
           /\ OutflowsOf(rows, {"BUFFER_SPENDING_UNCLASSIFIED"}) > 0
           /\ MomentumDetail.nfr_recent_components.essential_x20 > 0

\* C30: every weight table calculate can select (each data-mode table and
\* each income-segment table) has non-negative weights that sum to 1, so the
\* total score is a convex combination of the three components: it lies
\* between the smallest and the largest of buffer, stability and momentum,
\* and the final clip to [0, 100] never changes it.
C30_ConvexCombination ==
    /\ \A w \in {tables.WEIGHT_CONFIGS[k] : k \in DOMAIN tables.WEIGHT_CONFIGS}
               \cup {tables.DATA_MODE_WEIGHTS[k] :
                         k \in DOMAIN tables.DATA_MODE_WEIGHTS} :
           /\ w.buffer >= 0 /\ w.stability >= 0 /\ w.momentum >= 0
           /\ w.buffer + w.stability + w.momentum = 100
    /\ (result # None /\ ~Raised) =>
           LET fri == result[1]
               lowest == Min(fri.buffer, Min(fri.stability, fri.momentum))
               highest == Max(fri.buffer, Max(fri.stability, fri.momentum))
               weighted == (fri.weights.buffer * fri.buffer
                            + fri.weights.stability * fri.stability
                            + fri.weights.momentum * fri.momentum) \div 100
           IN  /\ lowest <= fri.total_score
               /\ fri.total_score <= highest
               /\ fri.total_score = weighted

====
